---------------------------- MODULE Spec2Model ----------------------------
(***************************************************************************)
(* Model of the TBA synchronisation layer of PARTs_WebAPI (src/tba/util.py) *)
(* and of the HTTP views that call it.                                      *)
(*                                                                          *)
(* The relational database is the state: one sequence per table whose rows  *)
(* carry a surrogate id (Event, Match, EventTeamInfo, Message), a function  *)
(* keyed by the primary key for Team, and a set of pairs for the            *)
(* Team<->Event many-to-many table.  Every function of util.py is one       *)
(* action that performs the whole call.  What The Blue Alliance answers to  *)
(* an outbound GET is an input of the action.                               *)
(*                                                                          *)
(* A Python str is a sequence of chunks (a chunk is one or more characters  *)
(* that the code never splits); JSON documents are trees of uniform nodes.  *)
(***************************************************************************)
EXTENDS Integers, Sequences, FiniteSets, TLC

VARIABLES
    events,            \* table scouting_event: Seq of Event rows, id = index
    teams,             \* table scouting_team: team_no -> Team row
    team_events,       \* m2m table: set of <<team_no, event id>>
    matches,           \* table scouting_match: Seq of Match rows
    event_team_infos,  \* table scouting_eventteaminfo: Seq of rows
    messages,          \* table tba_message: Seq of Message rows
    request,           \* the request handed to verify_tba_webhook_call
    inflight,          \* the calls running side by side: where each stands
    last               \* what the last call did: its name, inputs, result

vars == <<events, teams, team_events, matches, event_team_infos, messages,
          request, inflight, last>>

db == <<events, teams, team_events, matches, event_team_infos, messages>>

----------------------------------------------------------------------------
(* Sequences helpers *)

RECURSIVE Concat(_)
Concat(ss) == IF ss = <<>> THEN <<>> ELSE Head(ss) \o Concat(Tail(ss))

RECURSIVE Join(_, _)
\* sep.join(parts) on chunk sequences
Join(parts, sep) ==
    IF parts = <<>> THEN <<>>
    ELSE IF Len(parts) = 1 THEN parts[1]
    ELSE parts[1] \o sep \o Join(Tail(parts), sep)

----------------------------------------------------------------------------
(* JSON values as Python holds them after json.loads / in request.data.    *)
(* t: "null" | "int" | "str" | "list" | "obj"; kids: members in order, a    *)
(* dict keeps its insertion order.                                          *)

JNull == [t |-> "null", n |-> 0, s |-> <<>>, kids |-> <<>>]
JInt(i) == [t |-> "int", n |-> i, s |-> <<>>, kids |-> <<>>]
JStr(str) == [t |-> "str", n |-> 0, s |-> str, kids |-> <<>>]
JList(items) ==
    [t |-> "list", n |-> 0, s |-> <<>>,
     kids |-> [i \in DOMAIN items |-> [k |-> <<>>, v |-> items[i]]]]
JObj(members) == [t |-> "obj", n |-> 0, s |-> <<>>, kids |-> members]
KV(key, val) == [k |-> <<key>>, v |-> val]

\* key in d
Has(d, key) ==
    d.t = "obj" /\ \E i \in DOMAIN d.kids : d.kids[i].k = <<key>>

\* d[key], for a key that is present
Get(d, key) ==
    d.kids[CHOOSE i \in DOMAIN d.kids : d.kids[i].k = <<key>>].v

\* d.get(key, default)
GetOr(d, key, default) == IF Has(d, key) THEN Get(d, key) ELSE default

----------------------------------------------------------------------------
(* json.dumps(data, ensure_ascii=True) with the default separators          *)

\* the one non-ASCII character of the model, U+00E9
NonAscii == "e-acute"

\* ensure_ascii: a non-ASCII character leaves as its \uXXXX escape; a quote
\* and a backslash leave behind a backslash
EscapeChunk(c) ==
    CASE c = NonAscii -> "\\u00e9"
      [] c = "\"" -> "\\\""
      [] c = "\\" -> "\\\\"
      [] OTHER -> c

\* a serializer that forgets the quotes of a string
DumpsStr_unquoted(str) == [i \in DOMAIN str |-> EscapeChunk(str[i])]

DumpsStr(str) == <<"\"">> \o [i \in DOMAIN str |-> EscapeChunk(str[i])] \o <<"\"">>


DumpsScalar(v) ==
    CASE v.t = "null" -> <<"null">>
      [] v.t = "int" -> <<ToString(v.n)>>
      [] OTHER -> DumpsStr(v.s)

RECURSIVE JsonDumps(_)
JsonDumps(v) ==
    CASE v.t = "list" ->
           <<"[">> \o Join([i \in DOMAIN v.kids |-> JsonDumps(v.kids[i].v)], <<", ">>)
                   \o <<"]">>
      [] v.t = "obj" ->
           <<"{">> \o Join([i \in DOMAIN v.kids |->
                               DumpsStr(v.kids[i].k) \o <<": ">>
                                   \o JsonDumps(v.kids[i].v)], <<", ">>)
                   \o <<"}">>
      [] OTHER -> DumpsScalar(v)

----------------------------------------------------------------------------
(* verify_tba_webhook_call                                                  *)

\* settings.TBA_WEBHOOK_SECRET and a secret the sender might hold instead
TBA_WEBHOOK_SECRET == "secret"
OtherSecret == "not-the-secret"

\* hmac.new(key, msg, sha256).hexdigest(): HMAC-SHA256 is taken as an ideal
\* keyed function, free of collisions: its hex digest is determined by, and
\* determines, the key and the message.
HmacHexdigest(key, msg) == [key |-> key, msg |-> msg]

\* a header value that is the digest of nothing
InvalidSignature == [key |-> "", msg |-> <<"invalid_signature">>]

\* request.META: the X-TBA-HMAC header, present or not
NoHeader == [present |-> FALSE, value |-> InvalidSignature]
Header(hex) == [present |-> TRUE, value |-> hex]

\* a comparison that lets a request without the header through
verify_tba_webhook_call_lax(req) ==
    LET json_str == JsonDumps(req.data)
        hmac_hex == HmacHexdigest(TBA_WEBHOOK_SECRET, json_str)
    IN  ~req.meta.present \/ hmac_hex = req.meta.value

\* META.get("HTTP_X_TBA_HMAC", None) is None when the header is absent, and
\* no hex digest equals None
verify_tba_webhook_call(req) ==
    LET json_str == JsonDumps(req.data)
        hmac_hex == HmacHexdigest(TBA_WEBHOOK_SECRET, json_str)
    IN  req.meta.present /\ hmac_hex = req.meta.value

----------------------------------------------------------------------------
(* Results of a call: the database it leaves, the exception it raised       *)
(* ("" when it returned), the lines of the message it returned, and the     *)
(* functions it invoked, in order.                                          *)

Db(ev, tm, te, ma, eti, msg) ==
    [events |-> ev, teams |-> tm, team_events |-> te, matches |-> ma,
     event_team_infos |-> eti, messages |-> msg]

CurrentDb == Db(events, teams, team_events, matches, event_team_infos, messages)

\* one line of a returned message: its prefix and what it names
Line(tag, event_cd, team_no, match_key) ==
    [tag |-> tag, event |-> event_cd, team |-> team_no, match |-> match_key,
     number |-> 0]

\* a line that also names a match number
MatchLine(tag, event_cd, match_key, match_number) ==
    [tag |-> tag, event |-> event_cd, team |-> 0, match |-> match_key,
     number |-> match_number]

Result(d, err, lines) == [db |-> d, err |-> err, msgs |-> lines]

----------------------------------------------------------------------------
(* get_tba_event                                                            *)

NewYork == "America/New_York"

\* the zones pytz knows, among those the model names
KnownZones == {NewYork, "America/Chicago"}

\* datetime.strptime(s, "%Y-%m-%d"): the day number of a well-formed date
Days == ("2024-03-14" :> 14) @@ ("2024-03-15" :> 15) @@ ("2024-03-16" :> 16)
        @@ ("2024-03-17" :> 17)

IsDate(v) == v.t = "str" /\ Len(v.s) = 1 /\ v.s[1] \in DOMAIN Days

\* strptime(...).astimezone(pytz.timezone(time_zone))
Localised(v, time_zone) == [day |-> Days[v.s[1]], tz |-> time_zone]

NoData ==
    [event_nm |-> JNull, date_st |-> [day |-> 0, tz |-> ""],
     date_end |-> [day |-> 0, tz |-> ""], event_cd |-> <<>>,
     event_url |-> JNull, gmaps_url |-> JNull, address |-> JNull,
     city |-> JNull, state_prov |-> JNull, postal_code |-> JNull,
     location_name |-> JNull, timezone |-> JNull, webcast_url |-> JNull]

\* The exception get_tba_event raises on the response tba_event, "" if none
GetTbaEventErr(tba_event) ==
    LET tz == GetOr(tba_event, "timezone", JNull)
    IN  CASE GetOr(tba_event, "Error", JNull) # JNull -> "Exception"
          [] ~Has(tba_event, "name") -> "KeyError"
          [] ~Has(tba_event, "start_date") -> "KeyError"
          [] ~IsDate(Get(tba_event, "start_date")) -> "ValueError"
          [] tz # JNull /\ (tz.t # "str" \/ Len(tz.s) # 1) -> "UnknownTimeZoneError"
          [] tz # JNull /\ tz.s[1] \notin KnownZones -> "UnknownTimeZoneError"
          [] ~Has(tba_event, "end_date") -> "KeyError"
          [] ~IsDate(Get(tba_event, "end_date")) -> "ValueError"
          [] ~Has(tba_event, "key") -> "KeyError"
          [] ~Has(tba_event, "webcasts") -> "KeyError"
          [] OTHER -> ""

\* The dictionary get_tba_event returns when it does not raise
GetTbaEventData(tba_event) ==
    LET tz == GetOr(tba_event, "timezone", JNull)
        time_zone == IF tz # JNull THEN tz.s[1] ELSE NewYork
        webcasts == Get(tba_event, "webcasts")
    IN  [event_nm |-> Get(tba_event, "name"),
         date_st |-> Localised(Get(tba_event, "start_date"), time_zone),
         date_end |-> Localised(Get(tba_event, "end_date"), time_zone),
         event_cd |-> Get(tba_event, "key").s,
         event_url |-> GetOr(tba_event, "event_url", JNull),
         gmaps_url |-> GetOr(tba_event, "gmaps_url", JNull),
         address |-> GetOr(tba_event, "address", JNull),
         city |-> GetOr(tba_event, "city", JNull),
         state_prov |-> GetOr(tba_event, "state_prov", JNull),
         postal_code |-> GetOr(tba_event, "postal_code", JNull),
         location_name |-> GetOr(tba_event, "location_name", JNull),
         timezone |-> GetOr(tba_event, "timezone", JStr(<<NewYork>>)),
         webcast_url |-> IF Len(webcasts.kids) > 0
                         THEN Get(webcasts.kids[1].v, "channel")
                         ELSE JStr(<<>>)]

Fetched(err, tba_event) ==
    [err |-> err,
     data |-> IF err = "" THEN GetTbaEventData(tba_event) ELSE NoData]

get_tba_event(tba_event) == Fetched(GetTbaEventErr(tba_event), tba_event)

----------------------------------------------------------------------------
(* get_tba_event_teams                                                      *)

\* a response lacking a field the loop reads
BadTeams(tba_teams) ==
    \E i \in DOMAIN tba_teams.kids :
        \/ ~Has(tba_teams.kids[i].v, "team_number")
        \/ ~Has(tba_teams.kids[i].v, "nickname")

\* parsed.append({"team_no": team["team_number"], "team_nm": team["nickname"]})
ParsedTeams(bad, tba_teams) ==
    [err |-> IF bad THEN "KeyError" ELSE "",
     teams |-> IF bad THEN <<>>
               ELSE [i \in DOMAIN tba_teams.kids |->
                        [team_no |-> Get(tba_teams.kids[i].v, "team_number").n,
                         team_nm |-> Get(tba_teams.kids[i].v, "nickname").s]]]

get_tba_event_teams(tba_teams) == ParsedTeams(BadTeams(tba_teams), tba_teams)

----------------------------------------------------------------------------
(* sync_event                                                               *)

RECURSIVE SortedSeq(_)
\* the elements of a finite set of integers, ascending
SortedSeq(S) ==
    IF S = {} THEN <<>>
    ELSE LET m == CHOOSE x \in S : \A y \in S : x <= y
         IN  <<m>> \o SortedSeq(S \ {m})

\* a lookup that sees only the current event
EventIds_current(d, event_cd) ==
    {i \in DOMAIN d.events :
        d.events[i].event_cd = event_cd /\ d.events[i].current = "y"}

\* Event.objects.get(event_cd=...): the ids of the rows it matches
EventIds(d, event_cd) == {i \in DOMAIN d.events : d.events[i].event_cd = event_cd}

\* The row sync_event leaves for the event: the found row with void_ind and
\* the dates rewritten, or a new row; then the descriptive fields.
UpdatedEvent(row, data) ==
    [row EXCEPT !.void_ind = "n", !.date_st = data.date_st,
                !.date_end = data.date_end,
                !.event_nm = data.event_nm, !.event_url = data.event_url,
                !.address = data.address, !.city = data.city,
                !.state_prov = data.state_prov,
                !.postal_code = data.postal_code,
                !.location_name = data.location_name,
                !.gmaps_url = data.gmaps_url,
                !.webcast_url = data.webcast_url,
                !.timezone = data.timezone]

\* an insert that makes the new event the current one
NewEvent_current(season, data) ==
    [season |-> season, event_cd |-> data.event_cd,
     date_st |-> data.date_st, date_end |-> data.date_end,
     current |-> "y", competition_page_active |-> "n", void_ind |-> "n",
     event_nm |-> data.event_nm, event_url |-> data.event_url,
     address |-> data.address, city |-> data.city,
     state_prov |-> data.state_prov, postal_code |-> data.postal_code,
     location_name |-> data.location_name, gmaps_url |-> data.gmaps_url,
     webcast_url |-> data.webcast_url, timezone |-> data.timezone]

NewEvent(season, data) ==
    [season |-> season, event_cd |-> data.event_cd,
     date_st |-> data.date_st, date_end |-> data.date_end,
     current |-> "n", competition_page_active |-> "n", void_ind |-> "n",
     event_nm |-> data.event_nm, event_url |-> data.event_url,
     address |-> data.address, city |-> data.city,
     state_prov |-> data.state_prov, postal_code |-> data.postal_code,
     location_name |-> data.location_name, gmaps_url |-> data.gmaps_url,
     webcast_url |-> data.webcast_url, timezone |-> data.timezone]

\* a reconciliation that keeps the links of teams no longer reported
StaleTeams_none(d, event_id, roster) == {}

\* Team.objects.filter(~Q(team_no__in=...) & Q(event=event))
StaleTeams(d, event_id, roster) ==
    {t \in DOMAIN d.teams :
        /\ <<t, event_id>> \in d.team_events
        /\ t \notin {roster[i].team_no : i \in DOMAIN roster}}

\* try: Team(...).save(force_insert=True) / except IntegrityError: get
TeamsWith(tm, t) ==
    IF t.team_no \in DOMAIN tm THEN tm
    ELSE tm @@ (t.team_no :> [team_nm |-> t.team_nm, void_ind |-> "n"])

TeamLines(have, t, event_cd) ==
    << Line(IF have THEN "(NO ADD) Already have team" ELSE "(ADD) Added team",
            <<>>, t.team_no, <<>>),
       Line("(LINK) Added team", event_cd, t.team_no, <<>>) >>

Linked(lines, rest) == [db |-> rest.db, msgs |-> lines \o rest.msgs]

RECURSIVE LinkRoster(_, _, _, _)
\* the loop over data["teams"]: insert the Team or fetch it on
\* IntegrityError, then team.event_set.add(event), which adds the link when
\* it is missing and never raises
LinkRoster(d, roster, event_id, event_cd) ==
    IF roster = <<>> THEN [db |-> d, msgs |-> <<>>]
    ELSE Linked(TeamLines(Head(roster).team_no \in DOMAIN d.teams,
                          Head(roster), event_cd),
                LinkRoster([d EXCEPT
                              !.teams = TeamsWith(@, Head(roster)),
                              !.team_events =
                                  @ \cup {<<Head(roster).team_no, event_id>>}],
                           Tail(roster), event_id, event_cd))

\* the event row written: the row found, updated, or a new last row
EventRows(d, season, data, ids) ==
    IF ids # {}
    THEN [d.events EXCEPT ![CHOOSE i \in ids : TRUE] = UpdatedEvent(@, data)]
    ELSE Append(d.events, NewEvent(season, data))

\* a reconciliation that deletes the teams no longer reported
Unlinked_deleting(d, event_id, stale) ==
    [d EXCEPT !.team_events = @ \ {<<t, event_id>> : t \in stale},
              !.teams = [t \in DOMAIN @ \ stale |-> @[t]]]

\* for team in teams: team.event_set.remove(event)
Unlinked(d, event_id, stale) ==
    [d EXCEPT !.team_events = @ \ {<<t, event_id>> : t \in stale}]

EventLines(found, event_cd, removed) ==
    << Line(IF found THEN "(NO ADD) Already have event" ELSE "(ADD) Added event",
            event_cd, 0, <<>>) >>
    \o [i \in DOMAIN removed |->
           Line("(REMOVE) Removed team", event_cd, removed[i], <<>>)]

Reconciled(lines, linked) == Result(linked.db, "", lines \o linked.msgs)

\* from "remove teams that have been removed from an event" to the return
Reconcile(d1, found, event_id, event_cd, roster, stale) ==
    Reconciled(EventLines(found, event_cd, SortedSeq(stale)),
               LinkRoster(Unlinked(d1, event_id, stale), roster, event_id,
                          event_cd))

\* the writes of sync_event, the event row first
SyncEventRows(d, season, data, roster, ids, event_id) ==
    Reconcile([d EXCEPT !.events = EventRows(d, season, data, ids)],
              ids # {}, event_id, data.event_cd, roster,
              StaleTeams(d, event_id, roster))

\* a sync_event that fetches the teams after it has written the event
SyncEventFetched_late(d, season, fetched, parsed, ids) ==
    IF fetched.err # "" THEN Result(d, fetched.err, <<>>)
    ELSE IF Cardinality(ids) > 1
         THEN Result(d, "MultipleObjectsReturned", <<>>)
    ELSE IF parsed.err # ""
         THEN Result([d EXCEPT !.events = EventRows(d, season, fetched.data, ids)],
                     parsed.err, <<>>)
    ELSE SyncEventRows(d, season, fetched.data, parsed.teams, ids,
                       IF ids # {} THEN CHOOSE i \in ids : TRUE
                       ELSE Len(d.events) + 1)

SyncEventFetched(d, season, fetched, parsed, ids) ==
    IF fetched.err # "" THEN Result(d, fetched.err, <<>>)
    ELSE IF parsed.err # "" THEN Result(d, parsed.err, <<>>)
    ELSE IF Cardinality(ids) > 1
         THEN Result(d, "MultipleObjectsReturned", <<>>)
    ELSE SyncEventRows(d, season, fetched.data, parsed.teams, ids,
                       IF ids # {} THEN CHOOSE i \in ids : TRUE
                       ELSE Len(d.events) + 1)

SyncEventData(d, season, fetched, parsed) ==
    SyncEventFetched(d, season, fetched, parsed, EventIds(d, fetched.data.event_cd))

\* sync_event(season, event_cd), TBA answering tba_event to /event/<cd>
\* and tba_teams to /event/<cd>/teams
sync_event(d, season, tba_event, tba_teams) ==
    SyncEventData(d, season, get_tba_event(tba_event),
                  get_tba_event_teams(tba_teams))

----------------------------------------------------------------------------
(* replace_frc_in_str                                                       *)

RECURSIVE replace_frc_in_str_first(_)
\* a replace that stops after the first occurrence
replace_frc_in_str_first(s) ==
    IF Len(s) < 3 THEN s
    ELSE IF SubSeq(s, 1, 3) = <<"f", "r", "c">> THEN SubSeq(s, 4, Len(s))
    ELSE <<Head(s)>> \o replace_frc_in_str_first(Tail(s))

RECURSIVE replace_frc_in_str_lstrip(_)
\* s.lstrip("frc"): strips leading characters out of the set {f, r, c}
replace_frc_in_str_lstrip(s) ==
    IF s # <<>> /\ Head(s) \in {"f", "r", "c"}
    THEN replace_frc_in_str_lstrip(Tail(s))
    ELSE s

RECURSIVE replace_frc_in_str(_)
\* s.replace("frc", ""): one pass, left to right, over the occurrences
replace_frc_in_str(s) ==
    IF Len(s) < 3 THEN s
    ELSE IF SubSeq(s, 1, 3) = <<"f", "r", "c">>
         THEN replace_frc_in_str(SubSeq(s, 4, Len(s)))
         ELSE <<Head(s)>> \o replace_frc_in_str(Tail(s))

Digits == ("0" :> 0) @@ ("1" :> 1) @@ ("2" :> 2) @@ ("3" :> 3) @@ ("4" :> 4)
          @@ ("5" :> 5) @@ ("6" :> 6) @@ ("7" :> 7) @@ ("8" :> 8) @@ ("9" :> 9)

\* whether int(s) succeeds, as the ORM's lookup on an integer key calls it
IsNumber(s) == s # <<>> /\ \A i \in DOMAIN s : s[i] \in DOMAIN Digits

RECURSIVE ToNumber(_)
ToNumber(s) ==
    IF s = <<>> THEN 0
    ELSE 10 * ToNumber(SubSeq(s, 1, Len(s) - 1)) + Digits[s[Len(s)]]

----------------------------------------------------------------------------
(* save_tba_match                                                           *)

\* table scouting_competitionlevel; no function of util.py writes it
CompetitionLevels ==
    { [comp_lvl_typ |-> <<"qm">>, void_ind |-> "n"],
      [comp_lvl_typ |-> <<"f">>, void_ind |-> "y"] }

\* tba_match["alliances"][colour]["team_keys"][i], when the path exists
HasTeamKey(m, colour, i) ==
    /\ Has(m, "alliances")
    /\ Has(Get(m, "alliances"), colour)
    /\ Has(Get(Get(m, "alliances"), colour), "team_keys")
    /\ Len(Get(Get(Get(m, "alliances"), colour), "team_keys").kids) >= i

TeamKey(m, colour, i) ==
    Get(Get(Get(m, "alliances"), colour), "team_keys").kids[i].v.s

\* Team.objects.get(Q(team_no=no) & Q(void_ind="n")), no a str
TeamGetErr(d, no) ==
    IF ~IsNumber(no) THEN "ValueError"
    ELSE IF ToNumber(no) \in DOMAIN d.teams /\ d.teams[ToNumber(no)].void_ind = "n"
         THEN ""
         ELSE "Team.DoesNotExist"

TeamLookupErr(d, m, colour, i) ==
    IF ~HasTeamKey(m, colour, i) THEN "KeyError"
    ELSE TeamGetErr(d, replace_frc_in_str(TeamKey(m, colour, i)))

TeamNo(m, colour, i) == ToNumber(replace_frc_in_str(TeamKey(m, colour, i)))

Slots == << <<"red", 1>>, <<"red", 2>>, <<"red", 3>>,
            <<"blue", 1>>, <<"blue", 2>>, <<"blue", 3>> >>

CompLevelTyp(m) == GetOr(m, "comp_level", JStr(<<" ">>)).s

MatchIds(d, match_key) ==
    {i \in DOMAIN d.matches : d.matches[i].match_key = match_key}

FirstErr(slotErrs, failing) ==
    IF failing = {} THEN ""
    ELSE slotErrs[CHOOSE i \in failing : \A j \in failing : i <= j]

SlotsErr(slotErrs) == FirstErr(slotErrs, {i \in 1..6 : slotErrs[i] # ""})

\* the six Team lookups, red_one to blue_three
TeamsErr(d, m) ==
    SlotsErr([i \in 1..6 |-> TeamLookupErr(d, m, Slots[i][1], Slots[i][2])])

\* Event.objects.get(event_cd=tba_match["event_key"])
EventErr(d, m) ==
    CASE m.t # "obj" -> "TypeError"
      [] ~Has(m, "event_key") -> "KeyError"
      [] Get(m, "event_key").t # "str" -> "Event.DoesNotExist"
      [] EventIds(d, Get(m, "event_key").s) = {} -> "Event.DoesNotExist"
      [] Cardinality(EventIds(d, Get(m, "event_key").s)) > 1 ->
           "MultipleObjectsReturned"
      [] OTHER -> ""

\* the lookups after the teams: the competition level, time, the match key
RestErr(d, m) ==
    CASE ~\E c \in CompetitionLevels :
             c.comp_lvl_typ = CompLevelTyp(m) /\ c.void_ind = "n" ->
           "CompetitionLevel.DoesNotExist"
      [] ~Has(m, "time") -> "KeyError"
      [] ~Has(m, "key") -> "KeyError"
      [] Cardinality(MatchIds(d, Get(m, "key").s)) > 1 ->
           "MultipleObjectsReturned"
      [] OTHER -> ""

\* The first exception of save_tba_match's lookups, in the order the code
\* makes them; "" when every one succeeds.  All of them precede the write.
SaveTbaMatchErr(d, m) ==
    IF EventErr(d, m) # "" THEN EventErr(d, m)
    ELSE IF TeamsErr(d, m) # "" THEN TeamsErr(d, m)
    ELSE RestErr(d, m)

\* the fields both branches write
MatchFields(m) ==
    [red_one |-> TeamNo(m, "red", 1), red_two |-> TeamNo(m, "red", 2),
     red_three |-> TeamNo(m, "red", 3), blue_one |-> TeamNo(m, "blue", 1),
     blue_two |-> TeamNo(m, "blue", 2), blue_three |-> TeamNo(m, "blue", 3),
     red_score |-> GetOr(Get(Get(m, "alliances"), "red"), "score", JNull),
     blue_score |-> GetOr(Get(Get(m, "alliances"), "blue"), "score", JNull),
     comp_level |-> CompLevelTyp(m),
     time |-> IF Get(m, "time").t = "int" /\ Get(m, "time").n # 0
              THEN Get(m, "time") ELSE JNull]

UpdatedWith(row, f) ==
    [row EXCEPT !.red_one = f.red_one, !.red_two = f.red_two,
                !.red_three = f.red_three, !.blue_one = f.blue_one,
                !.blue_two = f.blue_two, !.blue_three = f.blue_three,
                !.red_score = f.red_score, !.blue_score = f.blue_score,
                !.comp_level = f.comp_level, !.time = f.time,
                !.void_ind = "n"]

\* an update that also takes the match number of the payload
UpdatedMatch_renumbered(row, m) ==
    [UpdatedWith(row, MatchFields(m)) EXCEPT
        !.match_number = GetOr(m, "match_number", JInt(0)).n]

UpdatedMatch(row, m) == UpdatedWith(row, MatchFields(m))

NewWith(d, m, f) ==
    [match_key |-> Get(m, "key").s,
     match_number |-> GetOr(m, "match_number", JInt(0)).n,
     event |-> CHOOSE i \in EventIds(d, Get(m, "event_key").s) : TRUE,
     red_one |-> f.red_one, red_two |-> f.red_two,
     red_three |-> f.red_three, blue_one |-> f.blue_one,
     blue_two |-> f.blue_two, blue_three |-> f.blue_three,
     red_score |-> f.red_score, blue_score |-> f.blue_score,
     comp_level |-> f.comp_level, time |-> f.time, void_ind |-> "n"]

NewMatch(d, m) == NewWith(d, m, MatchFields(m))

\* an upsert that inserts without looking the key up
SaveMatchRows_insert(d, m) == Append(d.matches, NewMatch(d, m))

RowsFor(d, m, ids) ==
    IF ids # {}
    THEN [d.matches EXCEPT ![CHOOSE i \in ids : TRUE] = UpdatedMatch(@, m)]
    ELSE Append(d.matches, NewMatch(d, m))

\* try: Match.objects.get(match_key) ... save() / except DoesNotExist: insert
SaveMatchRows(d, m) == RowsFor(d, m, MatchIds(d, Get(m, "key").s))

\* a save that writes the Match before it resolves the competition level
SavedMatch_early(d, m, err) ==
    IF err # "" /\ (EventErr(d, m) # "" \/ TeamsErr(d, m) # "")
    THEN Result(d, err, <<>>)
    ELSE IF err # ""
         THEN Result([d EXCEPT !.matches = SaveMatchRows(d, m)], err, <<>>)
    ELSE Result([d EXCEPT !.matches = SaveMatchRows(d, m)], "",
                << MatchLine(IF MatchIds(d, Get(m, "key").s) # {}
                             THEN "(UPDATE)" ELSE "(ADD)",
                             Get(m, "event_key").s, Get(m, "key").s,
                             GetOr(m, "match_number", JInt(0)).n) >>)

SavedMatch(d, m, err) ==
    IF err # "" THEN Result(d, err, <<>>)
    ELSE Result([d EXCEPT !.matches = SaveMatchRows(d, m)], "",
                << MatchLine(IF MatchIds(d, Get(m, "key").s) # {}
                             THEN "(UPDATE)" ELSE "(ADD)",
                             Get(m, "event_key").s, Get(m, "key").s,
                             GetOr(m, "match_number", JInt(0)).n) >>)

save_tba_match(d, m) == SavedMatch(d, m, SaveTbaMatchErr(d, m))

----------------------------------------------------------------------------
(* sync_matches                                                             *)

Joined(one, rest) == Result(rest.db, rest.err, one.msgs \o rest.msgs)

RECURSIVE SyncMatchesLoop(_, _, _)

\* a loop that reports the failing match and goes on with the rest
MatchTurn_continue(d, event_cd, ms, one) ==
    IF one.err # ""
    THEN Joined(Result(d, "",
                       << MatchLine("(ERROR)", event_cd, <<>>,
                                    GetOr(Head(ms), "match_number", JInt(0)).n) >>),
                SyncMatchesLoop(d, event_cd, Tail(ms)))
    ELSE Joined(one, SyncMatchesLoop(one.db, event_cd, Tail(ms)))

\* one turn of the loop, `one` being what save_tba_match did
MatchTurn(d, event_cd, ms, one) ==
    IF one.err # ""
    THEN Result(d, "",
                << MatchLine("(ERROR)", event_cd, <<>>,
                             GetOr(Head(ms), "match_number", JInt(0)).n) >>)
    ELSE Joined(one, SyncMatchesLoop(one.db, event_cd, Tail(ms)))

\* for match in matches: ... inside one try; the first exception ends it
SyncMatchesLoop(d, event_cd, ms) ==
    IF ms = <<>> THEN Result(d, "", <<>>)
    ELSE MatchTurn(d, event_cd, ms, save_tba_match(d, Head(ms)))

\* sync_matches(event), TBA answering tba_matches to /event/<cd>/matches
sync_matches(d, event_id, tba_matches) ==
    SyncMatchesLoop(d, d.events[event_id].event_cd,
                    [i \in DOMAIN tba_matches.kids |-> tba_matches.kids[i].v])

----------------------------------------------------------------------------
(* save_message                                                             *)

\* message_data is cut to this many characters
MaxMessageData == 4000

RECURSIVE PyRepr(_)
\* repr() of a parsed JSON value, as str() of a dict or list shows it; the
\* punctuation is written character by character, so that the length of the
\* result is its number of characters when the strings inside are
PyRepr(v) ==
    CASE v.t = "null" -> <<"N", "o", "n", "e">>
      [] v.t = "int" -> <<ToString(v.n)>>
      [] v.t = "str" -> <<"'">> \o v.s \o <<"'">>
      [] v.t = "list" ->
           <<"[">> \o Join([i \in DOMAIN v.kids |-> PyRepr(v.kids[i].v)],
                           <<",", " ">>)
                   \o <<"]">>
      [] OTHER ->
           <<"{">> \o Join([i \in DOMAIN v.kids |->
                               <<"'">> \o v.kids[i].k \o <<"'", ":", " ">>
                                   \o PyRepr(v.kids[i].v)], <<",", " ">>)
                   \o <<"}">>

\* str(x): a str is itself, anything else its repr
PyStr(v) == IF v.t = "str" THEN v.s ELSE PyRepr(v)

\* a slice that keeps the whole string
Take_all(s, n) == s

\* s[:n]
Take(s, n) == SubSeq(s, 1, IF Len(s) < n THEN Len(s) ELSE n)

\* a save_message that builds the row and never writes it
MessageRows_unsaved(d, message) == d.messages

\* Message(message_type=..., message_data=str(...)[:4000]).save()
MessageRows(d, message) ==
    Append(d.messages,
           [message_type |-> Get(message, "message_type").s,
            message_data |-> Take(PyStr(Get(message, "message_data")),
                                  MaxMessageData),
            processed |-> "n"])

save_message(d, message) ==
    IF ~Has(message, "message_type") \/ ~Has(message, "message_data")
    THEN Result(d, "KeyError", <<>>)
    ELSE Result([d EXCEPT !.messages = MessageRows(d, message)], "", <<>>)

----------------------------------------------------------------------------
(* get_tba_event_team_info                                                  *)

\* info["record"].get(field, 0) if info.get("record", 0) is not None else 0
RecordField(info, field) ==
    IF GetOr(info, "record", JInt(0)) # JNull
    THEN GetOr(Get(info, "record"), field, JInt(0))
    ELSE JInt(0)

InfoErr(info) ==
    CASE info.t # "obj" -> "AttributeError"
      [] GetOr(info, "record", JInt(0)) # JNull /\ ~Has(info, "record") -> "KeyError"
      [] Has(info, "record") /\ Get(info, "record") # JNull
            /\ Get(info, "record").t # "obj" -> "AttributeError"
      [] ~Has(info, "team_key") -> "KeyError"
      [] Get(info, "team_key").t # "str" -> "AttributeError"
      [] OTHER -> ""

InfoOf(info) ==
    [matches_played |-> GetOr(info, "matches_played", JInt(0)),
     qual_average |-> GetOr(info, "qual_average", JInt(0)),
     losses |-> RecordField(info, "losses"),
     wins |-> RecordField(info, "wins"),
     ties |-> RecordField(info, "ties"),
     rank |-> GetOr(info, "rank", JInt(0)),
     dq |-> GetOr(info, "dq", JInt(0)),
     team_id |-> replace_frc_in_str(Get(info, "team_key").s)]

RankingsErr(rankings, list) ==
    CASE rankings.t # "obj" -> "AttributeError"
      [] list.t # "list" -> "TypeError"
      [] \E i \in DOMAIN list.kids : InfoErr(list.kids[i].v) # "" ->
           InfoErr(list.kids[CHOOSE i \in DOMAIN list.kids :
                                 /\ InfoErr(list.kids[i].v) # ""
                                 /\ \A j \in 1..(i - 1) :
                                        InfoErr(list.kids[j].v) = ""].v)
      [] OTHER -> ""

RankingsRet(list, err) ==
    [err |-> err,
     ret |-> IF err # "" THEN <<>>
             ELSE [i \in DOMAIN list.kids |-> InfoOf(list.kids[i].v)]]

RankingsOf(rankings, list) == RankingsRet(list, RankingsErr(rankings, list))

\* for info in rankings.get("rankings", []): ret.append({...})
get_tba_event_team_info(rankings) ==
    RankingsOf(rankings, GetOr(rankings, "rankings", JList(<<>>)))

----------------------------------------------------------------------------
(* sync_event_team_info                                                     *)

\* EventTeamInfo.objects.get(Q(event=event) & Q(team_id=...) & Q(void_ind="n"))
EtiIds(d, event_id, team_no) ==
    {i \in DOMAIN d.event_team_infos :
        /\ d.event_team_infos[i].event = event_id
        /\ d.event_team_infos[i].team = team_no
        /\ d.event_team_infos[i].void_ind = "n"}

WithInfo(row, info) ==
    [row EXCEPT !.matches_played = info.matches_played,
                !.qual_average = info.qual_average,
                !.losses = info.losses, !.wins = info.wins,
                !.ties = info.ties, !.rank = info.rank, !.dq = info.dq]

NewEti(event_id, team_no) ==
    [event |-> event_id, team |-> team_no, matches_played |-> JInt(0),
     qual_average |-> JInt(0), losses |-> JInt(0), wins |-> JInt(0),
     ties |-> JInt(0), rank |-> JInt(0), dq |-> JInt(0), void_ind |-> "n"]

InfoJoined(line, rest) == Result(rest.db, rest.err, <<line>> \o rest.msgs)

EtiRows(d, event_id, no, info, ids) ==
    IF ids # {}
    THEN [d.event_team_infos EXCEPT ![CHOOSE i \in ids : TRUE] = WithInfo(@, info)]
    ELSE Append(d.event_team_infos, WithInfo(NewEti(event_id, no), info))

RECURSIVE SyncInfoLoop(_, _, _, _)

\* one turn of the loop: the get, the line (which reads eti.team), the save
InfoTurn(d, event_id, event_cd, infos, no, ids) ==
    IF Cardinality(ids) > 1 THEN Result(d, "MultipleObjectsReturned", <<>>)
    ELSE IF no \notin DOMAIN d.teams THEN Result(d, "Team.DoesNotExist", <<>>)
    ELSE InfoJoined(Line(IF ids # {} THEN "(UPDATE)" ELSE "(ADD)",
                         event_cd, no, <<>>),
                    SyncInfoLoop([d EXCEPT !.event_team_infos =
                                     EtiRows(d, event_id, no, Head(infos), ids)],
                                 event_id, event_cd, Tail(infos)))

\* the loop over the rankings; nothing catches what it raises, and each
\* eti.save() before the exception is already written
SyncInfoLoop(d, event_id, event_cd, infos) ==
    IF infos = <<>> THEN Result(d, "", <<>>)
    ELSE IF ~IsNumber(Head(infos).team_id) THEN Result(d, "ValueError", <<>>)
    ELSE InfoTurn(d, event_id, event_cd, infos, ToNumber(Head(infos).team_id),
                  EtiIds(d, event_id, ToNumber(Head(infos).team_id)))

Ranked(d, event_id, event_cd, fetched) ==
    IF fetched.err # "" THEN Result(d, fetched.err, <<>>)
    ELSE SyncInfoLoop(d, event_id, event_cd, fetched.ret)

\* an activity check that leaves out the first and the last day of the event
AfterSync_exclusive(synced, event_id, event, force, today, tba_rankings) ==
    IF synced.err # "" THEN Result(synced.db, synced.err, <<>>)
    ELSE IF force = 1 \/ (event.date_st.day < today /\ today < event.date_end.day)
         THEN Ranked(synced.db, event_id, event.event_cd,
                     get_tba_event_team_info(tba_rankings))
         ELSE Result(synced.db, "", <<Line("No active event", <<>>, 0, <<>>)>>)

\* after sync_event(event.season, event.event_cd): `event` is the row as it
\* was read before that call
AfterSync(synced, event_id, event, force, today, tba_rankings) ==
    IF synced.err # "" THEN Result(synced.db, synced.err, <<>>)
    ELSE IF force = 1 \/ (event.date_st.day <= today /\ today <= event.date_end.day)
         THEN Ranked(synced.db, event_id, event.event_cd,
                     get_tba_event_team_info(tba_rankings))
         ELSE Result(synced.db, "", <<Line("No active event", <<>>, 0, <<>>)>>)

\* an activity check on the dates sync_event has just written
InfoForEvent_fresh(d, event_id, force, today, tba_event, tba_teams, tba_rankings) ==
    LET synced == sync_event(d, d.events[event_id].season, tba_event, tba_teams)
    IN  AfterSync(synced, event_id, synced.db.events[event_id], force, today,
                  tba_rankings)

InfoForEvent(d, event_id, force, today, tba_event, tba_teams, tba_rankings) ==
    AfterSync(sync_event(d, d.events[event_id].season, tba_event, tba_teams),
              event_id, d.events[event_id], force, today, tba_rankings)

\* Event.objects.get(current="y")
CurrentIds(d) == {i \in DOMAIN d.events : d.events[i].current = "y"}

\* sync_event_team_info(force) on the day `today`, TBA answering tba_event,
\* tba_teams and tba_rankings for the current event
sync_event_team_info(d, force, today, tba_event, tba_teams, tba_rankings) ==
    IF CurrentIds(d) = {} THEN Result(d, "Event.DoesNotExist", <<>>)
    ELSE IF Cardinality(CurrentIds(d)) > 1
         THEN Result(d, "MultipleObjectsReturned", <<>>)
    ELSE InfoForEvent(d, CHOOSE i \in CurrentIds(d) : TRUE, force, today,
                      tba_event, tba_teams, tba_rankings)

----------------------------------------------------------------------------
(* sync_season                                                              *)

\* table scouting_season; no function of util.py writes it
Seasons == {1}

Rule == Line("----", <<>>, 0, <<>>)

SeasonJoined(one, rest) ==
    Result(rest.db, rest.err, one.msgs \o <<Rule>> \o rest.msgs)

RECURSIVE SyncSeasonLoop(_, _, _)

SeasonTurn(one, season, answers) ==
    IF one.err # "" THEN Result(one.db, one.err, <<>>)
    ELSE SeasonJoined(one, SyncSeasonLoop(one.db, season, Tail(answers)))

\* for event in request: messages += sync_event(season, event["key"]) + rule
SyncSeasonLoop(d, season, answers) ==
    IF answers = <<>> THEN Result(d, "", <<>>)
    ELSE SeasonTurn(sync_event(d, season, Head(answers).event,
                               Head(answers).teams),
                    season, answers)

\* a sync_season that reports a missing season as a line of its message
sync_season_swallowing(d, season_id, answers) ==
    IF season_id \notin Seasons
    THEN Result(d, "", <<Line("(ERROR)", <<>>, 0, <<>>)>>)
    ELSE SyncSeasonLoop(d, season_id, answers)

\* sync_season(season_id), TBA listing the team's events, each with the
\* answers to its two fetches
sync_season(d, season_id, answers) ==
    IF season_id \notin Seasons THEN Result(d, "Season.DoesNotExist", <<>>)
    ELSE SyncSeasonLoop(d, season_id, answers)

----------------------------------------------------------------------------
(* What The Blue Alliance may answer, and the rows the database may hold    *)
(* when the first call arrives.                                             *)

\* team numbers run from 1 to MaxTeamNo
MaxTeamNo == 4

\* a roster reports RosterSize consecutive team numbers
RosterSize == 3

EventDoc(key, name, start, end, more) ==
    JObj(<< KV("key", JStr(<<key>>)), KV("name", JStr(<<name>>)),
            KV("start_date", JStr(<<start>>)), KV("end_date", JStr(<<end>>)) >>
         \o more)

PahatDoc ==
    EventDoc("2024pahat", "Hatboro-Horsham", "2024-03-15", "2024-03-17",
             << KV("timezone", JStr(<<"America/Chicago">>)),
                KV("city", JStr(<<"Horsham">>)),
                KV("webcasts",
                   JList(<<JObj(<<KV("channel", JStr(<<"firstinspires">>))>>)>>)) >>)

\* the same event, renamed and moved a day, its timezone reported as null
PahatMovedDoc ==
    EventDoc("2024pahat", "Hatboro", "2024-03-14", "2024-03-16",
             << KV("timezone", JNull), KV("webcasts", JList(<<>>)) >>)

\* another event, reported without a timezone
MrcmpDoc ==
    EventDoc("2024mrcmp", "Championship", "2024-03-16", "2024-03-17",
             << KV("webcasts", JList(<<>>)) >>)

ErrorDoc == JObj(<<KV("Error", JStr(<<"Invalid endpoint">>))>>)

EventAnswers == {PahatDoc, PahatMovedDoc, MrcmpDoc, ErrorDoc}

TeamDoc(no) ==
    JObj(<< KV("team_number", JInt(no)), KV("nickname", JStr(<<"Team", ToString(no)>>)) >>)

\* the teams first .. first + RosterSize - 1
RosterDoc(first) == JList([i \in 1..RosterSize |-> TeamDoc(first + i - 1)])

TeamsAnswers ==
    {JList(<<>>)} \cup {RosterDoc(a) : a \in 1..(MaxTeamNo - RosterSize + 1)}

\* a list of teams whose second team lacks its nickname
BrokenRosterDoc ==
    JList(<<TeamDoc(MaxTeamNo), JObj(<<KV("team_number", JInt(1))>>)>>)

RosterNos(tba_teams) ==
    {tba_teams.kids[i].v.kids[1].v.n : i \in DOMAIN tba_teams.kids}

EmptyDb == Db(<<>>, <<>>, {}, <<>>, <<>>, <<>>)

\* the row tests/tba/conftest.py creates for the current event
PahatRow(void_ind) ==
    [season |-> 1, event_cd |-> <<"2024pahat">>,
     date_st |-> [day |-> 15, tz |-> NewYork],
     date_end |-> [day |-> 17, tz |-> NewYork],
     current |-> "y", competition_page_active |-> "n", void_ind |-> void_ind,
     event_nm |-> JStr(<<"Hatboro-Horsham">>),
     event_url |-> JStr(<<"http://test.com">>),
     address |-> JNull, city |-> JNull, state_prov |-> JNull,
     postal_code |-> JNull, location_name |-> JNull,
     gmaps_url |-> JStr(<<"http://maps.google.com">>),
     webcast_url |-> JStr(<<>>), timezone |-> JStr(<<NewYork>>)]

TeamRow(no, void_ind) == [team_nm |-> <<"Team", ToString(no)>>, void_ind |-> void_ind]

\* the current event with its first RosterSize teams linked to it
SeededDb ==
    Db(<<PahatRow("n")>>, [n \in 1..RosterSize |-> TeamRow(n, "n")],
       {<<n, 1>> : n \in 1..RosterSize}, <<>>, <<>>, <<>>)

\* the same rows with the event and team 1 soft-deleted
VoidedDb ==
    Db(<<PahatRow("y")>>,
       [n \in 1..RosterSize |-> TeamRow(n, IF n = 1 THEN "y" ELSE "n")],
       {<<n, 1>> : n \in 1..RosterSize}, <<>>, <<>>, <<>>)

----------------------------------------------------------------------------
(* The state machine                                                        *)

\* no response: the function was called directly, not through a view
NoResponse == [status |-> 0, error |-> FALSE, retMessage |-> <<>>]

NoRequest == [data |-> JNull, meta |-> NoHeader]

Idle == [op |-> "", in |-> <<>>, repeat |-> FALSE, err |-> "", msgs |-> <<>>,
         verified |-> FALSE, calls |-> <<>>, resp |-> NoResponse]

\* the record of a direct call of a function of util.py
Called(op, in, res) ==
    [op |-> op, in |-> in, repeat |-> (last.op = op /\ last.in = in),
     err |-> res.err, msgs |-> IF res.err = "" THEN res.msgs ELSE <<>>,
     verified |-> FALSE, calls |-> <<op>>, resp |-> NoResponse]

SetDb(d) ==
    /\ events' = d.events
    /\ teams' = d.teams
    /\ team_events' = d.team_events
    /\ matches' = d.matches
    /\ event_team_infos' = d.event_team_infos
    /\ messages' = d.messages

InitDb(d) ==
    /\ events = d.events
    /\ teams = d.teams
    /\ team_events = d.team_events
    /\ matches = d.matches
    /\ event_team_infos = d.event_team_infos
    /\ messages = d.messages

\* before the first call: the database holds one of the fixtures `dbs`, no
\* request was received and no function was called
InitWith(dbs) ==
    /\ \E d \in dbs : InitDb(d)
    /\ request = NoRequest
    /\ inflight = <<>>
    /\ last = Idle

SyncEvent(season, tba_event, tba_teams) ==
    LET res == sync_event(CurrentDb, season, tba_event, tba_teams)
    IN  /\ SetDb(res.db)
        /\ last' = Called("sync_event",
                          [season |-> season, event |-> tba_event,
                           teams |-> tba_teams], res)
        /\ UNCHANGED <<request, inflight>>

SeasonAnswers ==
    { <<>>,
      << [event |-> PahatDoc, teams |-> RosterDoc(1)] >>,
      << [event |-> PahatMovedDoc, teams |-> RosterDoc(1)],
         [event |-> MrcmpDoc, teams |-> RosterDoc(2)] >>,
      << [event |-> MrcmpDoc, teams |-> JList(<<>>)],
         [event |-> ErrorDoc, teams |-> JList(<<>>)] >> }

SyncSeason(season_id, answers) ==
    LET res == sync_season(CurrentDb, season_id, answers)
    IN  /\ SetDb(res.db)
        /\ last' = Called("sync_season",
                          [season |-> season_id, answers |-> answers], res)
        /\ UNCHANGED <<request, inflight>>

NextSync ==
    \/ \E tba_event \in EventAnswers, tba_teams \in TeamsAnswers :
           SyncEvent(1, tba_event, tba_teams)
    \/ \E tba_event \in {PahatDoc, ErrorDoc} :
           SyncEvent(1, tba_event, BrokenRosterDoc)
    \/ \E season_id \in {1, 2}, answers \in SeasonAnswers :
           SyncSeason(season_id, answers)

SpecSync == InitWith({EmptyDb, SeededDb, VoidedDb}) /\ [][NextSync]_vars

\* an alliance has three teams: team_keys[0] to team_keys[2]
AllianceSize == 3

\* "frc" + str(no)
FrcKey(no) == JStr(<<"f", "r", "c", ToString(no)>>)

Alliance(first, score) ==
    JObj(<< KV("team_keys", JList([i \in 1..AllianceSize |-> FrcKey(first + i - 1)])),
            KV("score", score) >>)

\* a match as /event/<cd>/matches and the match_score webhook report it
MatchDoc(key, number, event_key, red, blue, level, time) ==
    JObj(<< KV("key", JStr(<<key>>)), KV("match_number", JInt(number)),
            KV("event_key", JStr(<<event_key>>)),
            KV("comp_level", JStr(<<level>>)),
            KV("alliances", JObj(<<KV("red", red), KV("blue", blue)>>)),
            KV("time", time) >>)

\* qualification match 1 as first reported
Qm1Doc ==
    MatchDoc("2024pahat_qm1", 1, "2024pahat", Alliance(1, JInt(100)),
             Alliance(1 + AllianceSize, JInt(90)), "qm", JInt(1640000000))

\* the same match key reported again: the alliances swapped, other scores,
\* another number, no time
Qm1AgainDoc ==
    MatchDoc("2024pahat_qm1", 11, "2024pahat", Alliance(1 + AllianceSize, JInt(50)),
             Alliance(1, JNull), "qm", JNull)

Qm2Doc ==
    MatchDoc("2024pahat_qm2", 2, "2024pahat", Alliance(2, JInt(7)),
             Alliance(1, JInt(7)), "qm", JInt(0))

\* a match naming the soft-deleted team 2 * AllianceSize + 1
VoidTeamDoc ==
    MatchDoc("2024pahat_qm3", 3, "2024pahat", Alliance(1, JInt(1)),
             Alliance(2 + AllianceSize, JInt(2)), "qm", JInt(1640000000))

\* a match naming a team with no Team row
NoTeamDoc ==
    MatchDoc("2024pahat_qm4", 4, "2024pahat", Alliance(3 + AllianceSize, JInt(1)),
             Alliance(1, JInt(2)), "qm", JInt(1640000000))

\* a match of a soft-deleted competition level, and one of an unknown event
FinalDoc ==
    MatchDoc("2024pahat_f1", 1, "2024pahat", Alliance(1, JInt(1)),
             Alliance(1 + AllianceSize, JInt(2)), "f", JInt(1640000000))

ElsewhereDoc ==
    MatchDoc("2024mrcmp_qm1", 1, "2024mrcmp", Alliance(1, JInt(1)),
             Alliance(1 + AllianceSize, JInt(2)), "qm", JInt(1640000000))

\* the body tests/tba/test_tba_util_webhook.py feeds sync_matches
InvalidDoc == JObj(<<KV("invalid", JStr(<<"data">>))>>)

MatchAnswers ==
    {Qm1Doc, Qm1AgainDoc, Qm2Doc, VoidTeamDoc, NoTeamDoc, FinalDoc,
     ElsewhereDoc, InvalidDoc}

MatchesAnswers ==
    { JList(<<>>), JList(<<Qm1Doc, Qm2Doc>>),
      JList(<<Qm1AgainDoc, NoTeamDoc, Qm2Doc>>), JList(<<InvalidDoc>>) }

\* the rows tests/tba/conftest.py creates: the event and the six teams of
\* a match, here with one more team, soft-deleted
MatchDb ==
    Db(<<PahatRow("n")>>,
       [n \in 1..(2 * AllianceSize + 1) |->
           TeamRow(n, IF n = 2 * AllianceSize + 1 THEN "y" ELSE "n")],
       {<<n, 1>> : n \in 1..(2 * AllianceSize)}, <<>>, <<>>, <<>>)

SaveTbaMatch(m) ==
    LET res == save_tba_match(CurrentDb, m)
    IN  /\ SetDb(res.db)
        /\ last' = Called("save_tba_match", [match |-> m], res)
        /\ UNCHANGED <<request, inflight>>

SyncMatches(event_id, tba_matches) ==
    LET res == sync_matches(CurrentDb, event_id, tba_matches)
    IN  /\ event_id \in DOMAIN events
        /\ SetDb(res.db)
        /\ last' = Called("sync_matches",
                          [event |-> event_id, matches |-> tba_matches], res)
        /\ UNCHANGED <<request, inflight>>

NextMatch ==
    \/ \E m \in MatchAnswers : SaveTbaMatch(m)
    \/ \E tba_matches \in MatchesAnswers : SyncMatches(1, tba_matches)

SpecMatch == InitWith({EmptyDb, MatchDb}) /\ [][NextMatch]_vars

----------------------------------------------------------------------------
(* Requests to the webhook                                                  *)

Message(type, data) ==
    JObj(<< KV("message_type", JStr(<<type>>)), KV("message_data", data) >>)

\* bodies that differ in one place only: the type of a value, the order of
\* the keys, one character, an escaped character against its escape written
\* out, a nesting level
VerifyPayloads ==
    { Message("ping", JInt(1)),
      Message("ping", JStr(<<"1">>)),
      Message("ping", JNull),
      Message("ping", JStr(<<"null">>)),
      Message("ping", JStr(<<NonAscii>>)),
      Message("ping", JStr(<<"\\", "u00e9">>)),
      Message("ping", JList(<<JInt(1)>>)),
      Message("pong", JInt(1)),
      JObj(<< KV("message_data", JInt(1)), KV("message_type", JStr(<<"ping">>)) >>),
      Message("schedule_updated",
              JObj(<<KV("event_key", JStr(<<"2024pahat">>))>>)),
      Message("schedule_updated",
              JObj(<<KV("event_key", JStr(<<"2024mrcmp">>))>>)) }

Signed(key, data) == Header(HmacHexdigest(key, JsonDumps(data)))

VerifyHeaders ==
    {NoHeader, Header(InvalidSignature)}
    \cup {Signed(key, data) :
              key \in {TBA_WEBHOOK_SECRET, OtherSecret}, data \in VerifyPayloads}

VerifyCall ==
    /\ last.op = ""
    /\ last' = [Idle EXCEPT !.op = "verify_tba_webhook_call",
                            !.verified = verify_tba_webhook_call(request),
                            !.calls = <<"verify_tba_webhook_call">>]
    /\ UNCHANGED <<db, request, inflight>>

InitVerify ==
    /\ InitDb(EmptyDb)
    /\ request \in [data : VerifyPayloads, meta : VerifyHeaders]
    /\ inflight = <<>>
    /\ last = Idle

NextVerify == VerifyCall

SpecVerify == InitVerify /\ [][NextVerify]_vars

----------------------------------------------------------------------------
(* Properties of verify_tba_webhook_call                                    *)

\* the requests that carry the digest of their own body under the secret
CorrectlySigned ==
    {[data |-> data, meta |-> Signed(TBA_WEBHOOK_SECRET, data)] :
         data \in VerifyPayloads}

\* C1: verify_tba_webhook_call accepts exactly the correctly signed
\* requests: True when the header is the HMAC-SHA256 hex digest of the
\* canonical JSON of the payload under the shared secret, False for a
\* request whose payload or header differs from such a pair, the digest of
\* another payload included.
C1_AcceptsExactlySigned ==
    last.op = "verify_tba_webhook_call" =>
        /\ last.verified <=> request \in CorrectlySigned
        /\ \A data \in VerifyPayloads :
               (data # request.data
                   /\ request.meta = Signed(TBA_WEBHOOK_SECRET, data))
               => ~last.verified

\* a correctly signed request was accepted
C1_Witness ==
    /\ last.op = "verify_tba_webhook_call"
    /\ request \in CorrectlySigned
    /\ last.verified

\* C2: without an X-TBA-HMAC header verify_tba_webhook_call returns False,
\* whatever the payload, and does not raise.
C2_MissingHeaderRejected ==
    (last.op = "verify_tba_webhook_call" /\ ~request.meta.present) =>
        (~last.verified /\ last.err = "")

\* a request without the header was verified
C2_Witness ==
    /\ last.op = "verify_tba_webhook_call"
    /\ ~request.meta.present
    /\ request.data = Message("ping", JInt(1))

----------------------------------------------------------------------------
(* Properties of sync_event                                                 *)

LinkedTeams(te, event_id) == {t \in 1..MaxTeamNo + RosterSize : <<t, event_id>> \in te}

TagLines(lines, tag) == {i \in DOMAIN lines : lines[i].tag = tag}

\* C4: sync_event is idempotent on persisted state: a second run in a row
\* with the same event data and the same roster leaves the Event rows, the
\* Team rows and the Team-Event links as the first run left them (so no
\* second Event or Team), and reports (NO ADD) for the event and every team.
C4_SyncEventIdempotent ==
    [][ (last'.op = "sync_event" /\ last'.repeat /\ last'.err = "")
        => /\ events' = events
           /\ teams' = teams
           /\ team_events' = team_events
           /\ TagLines(last'.msgs, "(ADD) Added event") = {}
           /\ TagLines(last'.msgs, "(ADD) Added team") = {}
           /\ Cardinality(TagLines(last'.msgs, "(NO ADD) Already have event")) = 1
           /\ \A t \in RosterNos(last'.in.teams) :
                 \E i \in TagLines(last'.msgs, "(NO ADD) Already have team") :
                     last'.msgs[i].team = t ]_vars

\* a second run in a row of a sync_event that reported a roster
C4_Witness ==
    /\ last.op = "sync_event" /\ last.repeat /\ last.err = ""
    /\ RosterNos(last.in.teams) # {}
    /\ Len(events) = 2

\* C5: roster reconciliation: after sync_event returns, the teams linked to
\* the event are exactly the reported roster; each team linked before and
\* not reported is unlinked with one (REMOVE) line and keeps its Team row; a
\* reported team that was not linked is linked, its Team row created when no
\* Team had that number and reused unchanged otherwise; a team in both sets
\* keeps its link and its Team row.
C5_RosterReconciled ==
    [][ (last'.op = "sync_event" /\ last'.err = "")
        => LET cd == Get(last'.in.event, "key").s
               roster == RosterNos(last'.in.teams)
               ids == {i \in DOMAIN events' : events'[i].event_cd = cd}
               id == CHOOSE i \in ids : TRUE
               before == LinkedTeams(team_events, id)
               removes == TagLines(last'.msgs, "(REMOVE) Removed team")
           IN  /\ Cardinality(ids) = 1
               /\ LinkedTeams(team_events', id) = roster
               /\ {last'.msgs[i].team : i \in removes} = before \ roster
               /\ Cardinality(removes) = Cardinality(before \ roster)
               /\ \A t \in roster \cup before :
                     /\ t \in DOMAIN teams'
                     /\ t \in DOMAIN teams => teams'[t] = teams[t]
                     /\ t \notin DOMAIN teams =>
                            teams'[t] = [team_nm |-> <<"Team", ToString(t)>>,
                                         void_ind |-> "n"] ]_vars

\* the roster {1,2,3} replaced by {2,3,4}: one team unlinked, one created
\* and linked, two kept
C5_Witness ==
    /\ last.op = "sync_event" /\ last.err = ""
    /\ Cardinality(TagLines(last.msgs, "(REMOVE) Removed team")) = 1
    /\ Cardinality(TagLines(last.msgs, "(ADD) Added team")) = 1
    /\ Cardinality(TagLines(last.msgs, "(NO ADD) Already have team")) = 2
    /\ LinkedTeams(team_events, 1) = RosterNos(last.in.teams)
    /\ \E i \in DOMAIN events :
           /\ events[i].event_cd = Get(last.in.event, "key").s
           /\ LinkedTeams(team_events, i) = RosterNos(last.in.teams)

----------------------------------------------------------------------------
(* Properties of save_tba_match                                             *)

\* the numbers a well-formed match names in its six slots
NamedTeams(m) == [i \in 1..6 |-> TeamNo(m, Slots[i][1], Slots[i][2])]

SlotTeams(row) ==
    << row.red_one, row.red_two, row.red_three,
       row.blue_one, row.blue_two, row.blue_three >>

\* a match whose event, six teams (none soft-deleted) and competition level
\* have their rows
Resolvable(m, ev, tm) ==
    /\ m # InvalidDoc
    /\ \E i \in DOMAIN ev : ev[i].event_cd = Get(m, "event_key").s
    /\ \A i \in 1..6 :
           NamedTeams(m)[i] \in DOMAIN tm /\ tm[NamedTeams(m)[i]].void_ind = "n"
    /\ Get(m, "comp_level").s = <<"qm">>

KeyRows(ma, key) == {i \in DOMAIN ma : ma[i].match_key = key}

\* C3: the Match upsert is keyed by match key.  A save_tba_match whose
\* event, six teams and competition level resolve returns; with no Match of
\* that key it adds one row carrying the reported scores and teams and
\* reports (ADD); with one it reports (UPDATE) and overwrites the scores and
\* teams of that row, adding none; no other row changes; and in every state
\* there is at most one Match per match key.
C3_MatchUpsertByKey ==
    /\ [](\A i, j \in DOMAIN matches :
              matches[i].match_key = matches[j].match_key => i = j)
    /\ [][ last'.op = "save_tba_match"
           => LET m == last'.in.match
              IN  /\ Resolvable(m, events, teams) => last'.err = ""
                  /\ last'.err = "" =>
                       LET key == Get(m, "key").s
                           had == KeyRows(matches, key)
                           has == KeyRows(matches', key)
                           row == matches'[CHOOSE i \in has : TRUE]
                       IN  /\ Cardinality(has) = 1
                           /\ Len(last'.msgs) = 1
                           /\ last'.msgs[1].match = key
                           /\ last'.msgs[1].tag =
                                  IF had = {} THEN "(ADD)" ELSE "(UPDATE)"
                           /\ had = {} => Len(matches') = Len(matches) + 1
                           /\ had # {} => (Len(matches') = Len(matches) /\ has = had)
                           /\ row.red_score =
                                  Get(Get(Get(m, "alliances"), "red"), "score")
                           /\ row.blue_score =
                                  Get(Get(Get(m, "alliances"), "blue"), "score")
                           /\ SlotTeams(row) = NamedTeams(m)
                           /\ \A i \in DOMAIN matches :
                                  i \notin had => matches'[i] = matches[i] ]_vars

\* a match saved over the row an earlier save of the same key created
C3_Witness ==
    /\ last.op = "save_tba_match" /\ last.err = ""
    /\ last.in.match = Qm1AgainDoc
    /\ last.msgs[1].tag = "(UPDATE)"
    /\ Len(matches) = 2
    /\ \E i \in DOMAIN matches :
           /\ matches[i].match_key = <<"2024pahat_qm1">>
           /\ matches[i].red_score = JInt(50)
           /\ matches[i].red_one = 1 + AllianceSize

----------------------------------------------------------------------------
(* The webhook receiver, POST /tba/webhook/.  The view is not among the     *)
(* sources: it is written after section 4.3 of the specification and the   *)
(* requests of tests/tba/test_tba_views_extended.py; the functions it      *)
(* calls are the ones of util.py above.                                    *)

\* the message types the receiver dispatches on
NewSchedule == "schedule_updated"

ScoreUpdate == "match_score"

RankingUpdate == "ranking_update"

\* what a view did: the rows it left, the exception it caught, the
\* functions of util.py it called, in order
Outcome(res, calls) == [db |-> res.db, err |-> res.err, calls |-> calls]

\* scouting.util.get_event(event_key), then sync_matches(event)
MatchesOf(d, ids, tba_matches) ==
    IF Cardinality(ids) # 1 THEN Outcome(Result(d, "Exception", <<>>), <<"sync_event">>)
    ELSE Outcome(sync_matches(d, CHOOSE i \in ids : TRUE, tba_matches),
                 <<"sync_event", "sync_matches">>)

\* a new match schedule: sync_event, then sync_matches unless it raised
ThenMatches(synced, event_cd, tba_matches) ==
    IF synced.err # "" THEN Outcome(synced, <<"sync_event">>)
    ELSE MatchesOf(synced.db, EventIds(synced.db, event_cd), tba_matches)

\* a switch whose last case takes every remaining message type
Dispatched_fallthrough(d, type, data, world) ==
    IF type = <<NewSchedule>>
    THEN ThenMatches(sync_event(d, 1, world.event, world.teams),
                     GetOr(data, "event_key", JStr(<<>>)).s, world.matches)
    ELSE IF type = <<ScoreUpdate>>
    THEN Outcome(save_tba_match(d, GetOr(data, "match", JNull)), <<"save_tba_match">>)
    ELSE Outcome(sync_event_team_info(d, 1, world.today, world.event,
                                      world.teams, world.rankings),
                 <<"sync_event_team_info">>)

\* the switch on the message type, TBA answering `world` to what is fetched
Dispatched(d, type, data, world) ==
    IF type = <<NewSchedule>>
    THEN IF ~Has(data, "event_key")
         THEN Outcome(Result(d, "KeyError", <<>>), <<>>)
         ELSE ThenMatches(sync_event(d, 1, world.event, world.teams),
                          Get(data, "event_key").s, world.matches)
    ELSE IF type = <<ScoreUpdate>>
    THEN IF ~Has(data, "match")
         THEN Outcome(Result(d, "KeyError", <<>>), <<>>)
         ELSE Outcome(save_tba_match(d, Get(data, "match")), <<"save_tba_match">>)
    ELSE IF type = <<RankingUpdate>>
    THEN Outcome(sync_event_team_info(d, 1, world.today, world.event,
                                      world.teams, world.rankings),
                 <<"sync_event_team_info">>)
    ELSE Outcome(Result(d, "", <<>>), <<>>)

\* message.processed = "y"; message.save(), once a known type was handled
Processed(d, type, done) ==
    IF done.err = "" /\ done.calls # <<>>
    THEN [done.db EXCEPT !.messages[Len(d.messages)].processed = "y"]
    ELSE done.db

\* the view after save_message returned the stored message
Stored(d, type, done) ==
    [db |-> Processed(d, type, done), err |-> done.err,
     calls |-> <<"verify_tba_webhook_call", "save_message">> \o done.calls]

Received(saved, data, world) ==
    IF saved.err # ""
    THEN Outcome(saved, <<"verify_tba_webhook_call", "save_message">>)
    ELSE Stored(saved.db, Get(data, "message_type").s,
                Dispatched(saved.db, Get(data, "message_type").s,
                           Get(data, "message_data"), world))

\* a receiver that stores and dispatches whatever the verification said
Webhook_unverified(d, req, verified, world) ==
    Received(save_message(d, req.data), req.data, world)

\* if verify_tba_webhook_call(request): store the message, dispatch on it
Webhook(d, req, verified, world) ==
    IF ~verified THEN Outcome(Result(d, "", <<>>), <<"verify_tba_webhook_call">>)
    ELSE Received(save_message(d, req.data), req.data, world)

\* 200 once the message was handled, 500 when the request was not verified
\* or something raised
WebhookResponse(verified, done) ==
    [status |-> IF verified /\ done.err = "" THEN 200 ELSE 500,
     error |-> FALSE, retMessage |-> <<>>]

WebhookDone(req, verified, done) ==
    /\ SetDb(done.db)
    /\ request' = req
    /\ UNCHANGED inflight
    /\ last' = [Idle EXCEPT !.op = "webhook", !.err = done.err,
                            !.verified = verified, !.calls = done.calls,
                            !.resp = WebhookResponse(verified, done)]

\* stored messages are capped at MaxMessages rows
MaxMessages == 2

WebhookView(req, world) ==
    /\ Len(messages) < MaxMessages
    /\ WebhookDone(req, verify_tba_webhook_call(req),
                   Webhook(CurrentDb, req, verify_tba_webhook_call(req), world))

\* one ranked team, as /event/<cd>/rankings reports it
RankingsDoc ==
    JObj(<<KV("rankings",
              JList(<< JObj(<< KV("team_key", FrcKey(1)), KV("rank", JInt(1)),
                               KV("matches_played", JInt(2)),
                               KV("dq", JInt(0)),
                               KV("record", JObj(<< KV("wins", JInt(2)),
                                                    KV("losses", JInt(0)),
                                                    KV("ties", JInt(0)) >>)) >>) >>))>>)

\* what TBA answers during one request: the event, its teams, its matches,
\* its rankings, and the day of the request
Worlds ==
    { [event |-> PahatDoc, teams |-> RosterDoc(1),
       matches |-> JList(<<Qm1Doc, Qm2Doc>>), rankings |-> RankingsDoc,
       today |-> 16],
      [event |-> PahatMovedDoc, teams |-> RosterDoc(1),
       matches |-> JList(<<InvalidDoc>>),
       rankings |-> JObj(<<KV("rankings", JNull)>>), today |-> 16],
      [event |-> ErrorDoc, teams |-> JList(<<>>), matches |-> JList(<<>>),
       rankings |-> JObj(<<>>), today |-> 16] }

EventKeyDoc == JObj(<<KV("event_key", JStr(<<"2024pahat">>))>>)

\* the bodies of tests/tba/test_tba_views_extended.py, and a ranking update
WebhookPayloads ==
    { Message(NewSchedule, EventKeyDoc),
      Message(ScoreUpdate, JObj(<<KV("match", Qm1Doc)>>)),
      Message(ScoreUpdate, JObj(<<KV("match", NoTeamDoc)>>)),
      Message(RankingUpdate, EventKeyDoc),
      Message("unknown_type", JObj(<<>>)),
      Message("upcoming_match", JObj(<<>>)) }

\* each body unsigned, signed under the secret, and signed under another key
WebhookRequests ==
    UNION { { [data |-> data, meta |-> NoHeader],
              [data |-> data, meta |-> Signed(TBA_WEBHOOK_SECRET, data)],
              [data |-> data, meta |-> Signed(OtherSecret, data)] } :
            data \in WebhookPayloads }

NextWebhook == \E req \in WebhookRequests, world \in Worlds : WebhookView(req, world)

SpecWebhook == InitWith({EmptyDb, MatchDb}) /\ [][NextWebhook]_vars

----------------------------------------------------------------------------
(* The permission-gated endpoints of tba/views.py: /tba/sync-season/,       *)
(* /tba/sync-event/ and /tba/sync-matches/.  The views are not among the   *)
(* sources: they are written after section 4.4 of the specification and    *)
(* the tests of tests/tba and tests/scouting.                              *)

\* the envelopes, each sent with HTTP 200
Denied ==
    [status |-> 200, error |-> TRUE,
     retMessage |-> <<Line("do not have access", <<>>, 0, <<>>)>>]

Failed ==
    [status |-> 200, error |-> TRUE,
     retMessage |-> <<Line("An error occurred", <<>>, 0, <<>>)>>]

\* an endpoint that lets the exception of the utility through
Envelope_propagating(res) ==
    IF res.err # ""
    THEN [status |-> 500, error |-> TRUE, retMessage |-> <<>>]
    ELSE [status |-> 200, error |-> FALSE, retMessage |-> res.msgs]

\* try: ret_message(util(...)) except Exception: ret_message(error=True)
Envelope(res) ==
    IF res.err # "" THEN Failed
    ELSE [status |-> 200, error |-> FALSE, retMessage |-> res.msgs]

\* an endpoint that asks for the permission once the work is done
Gated_late(has_access, d, util, res) ==
    [db |-> res.db, err |-> res.err, msgs |-> <<>>, calls |-> <<util>>,
     resp |-> IF has_access THEN Envelope(res) ELSE Denied]

\* if has_access(...): delegate to the utility; else: the denial
Gated(has_access, d, util, res) ==
    IF ~has_access
    THEN [db |-> d, err |-> "", msgs |-> <<>>, calls |-> <<>>, resp |-> Denied]
    ELSE [db |-> res.db, err |-> res.err,
          msgs |-> IF res.err = "" THEN res.msgs ELSE <<>>,
          calls |-> <<util>>, resp |-> Envelope(res)]

Served(view, has_access, out) ==
    /\ SetDb(out.db)
    /\ last' = [Idle EXCEPT !.op = view, !.in = [has_access |-> has_access],
                            !.err = out.err, !.msgs = out.msgs,
                            !.calls = out.calls, !.resp = out.resp]
    /\ UNCHANGED <<request, inflight>>

SyncSeasonView(has_access, season_id, answers) ==
    Served("SyncSeasonView", has_access,
           Gated(has_access, CurrentDb, "sync_season",
                 sync_season(CurrentDb, season_id, answers)))

SyncEventView(has_access, season_id, tba_event, tba_teams) ==
    Served("SyncEventView", has_access,
           Gated(has_access, CurrentDb, "sync_event",
                 sync_event(CurrentDb, season_id, tba_event, tba_teams)))

\* scouting.util.get_current_event(), then sync_matches(event)
SyncMatchesOfCurrent(d, ids, tba_matches) ==
    IF Cardinality(ids) # 1 THEN Result(d, "Exception", <<>>)
    ELSE sync_matches(d, CHOOSE i \in ids : TRUE, tba_matches)

SyncMatchesView(has_access, tba_matches) ==
    Served("SyncMatchesView", has_access,
           Gated(has_access, CurrentDb, "sync_matches",
                 SyncMatchesOfCurrent(CurrentDb, CurrentIds(CurrentDb), tba_matches)))

NextViews ==
    \/ \E has_access \in BOOLEAN, season_id \in {1, 2}, answers \in SeasonAnswers :
           SyncSeasonView(has_access, season_id, answers)
    \/ \E has_access \in BOOLEAN, tba_event \in EventAnswers,
          tba_teams \in TeamsAnswers :
           SyncEventView(has_access, 1, tba_event, tba_teams)
    \/ \E has_access \in BOOLEAN, tba_matches \in MatchesAnswers :
           SyncMatchesView(has_access, tba_matches)

SpecViews == InitWith({EmptyDb, MatchDb}) /\ [][NextViews]_vars

----------------------------------------------------------------------------
(* Properties of the webhook receiver                                       *)

\* the synchronization functions a message type calls for, in order
SyncFor(type) ==
    IF type = <<NewSchedule>> THEN <<"sync_event", "sync_matches">>
    ELSE IF type = <<ScoreUpdate>> THEN <<"save_tba_match">>
    ELSE IF type = <<RankingUpdate>> THEN <<"sync_event_team_info">>
    ELSE <<>>

IsPrefix(s, t) == Len(s) <= Len(t) /\ SubSeq(t, 1, Len(s)) = s

\* C6: when verify_tba_webhook_call returns False the receiver skips the
\* dispatch: it calls no synchronization function and not save_message, and
\* the Event, Team, link, Match, EventTeamInfo and Message rows are the
\* ones before the request.
C6_UnverifiedSkipsDispatch ==
    [][ (last'.op = "webhook" /\ ~last'.verified) =>
            /\ last'.calls = <<"verify_tba_webhook_call">>
            /\ UNCHANGED db ]_vars

\* a schedule update signed under another key, received when rows exist
C6_Witness ==
    /\ last.op = "webhook" /\ ~last.verified
    /\ request.data = Message(NewSchedule, EventKeyDoc)
    /\ request.meta = Signed(OtherSecret, request.data)
    /\ events # <<>>

\* C7: for a verified webhook the payload is stored as a Message before any
\* synchronization function runs, and then the functions of its message
\* type run in order (sync_event then sync_matches, save_tba_match, or
\* sync_event_team_info), up to the first that raises; the Message row is
\* there whether or not one raised.
C7_StoredThenDispatched ==
    [][ (last'.op = "webhook" /\ last'.verified) =>
            LET type == Get(request'.data, "message_type").s
                ran == SubSeq(last'.calls, 3, Len(last'.calls))
                stored == messages'[Len(messages')]
            IN  /\ Len(last'.calls) >= 2
                /\ last'.calls[1] = "verify_tba_webhook_call"
                /\ last'.calls[2] = "save_message"
                /\ IsPrefix(ran, SyncFor(type))
                /\ SyncFor(type) # <<>> => ran # <<>>
                /\ last'.err = "" => ran = SyncFor(type)
                /\ Len(messages') = Len(messages) + 1
                /\ \A i \in DOMAIN messages :
                       /\ messages'[i].message_type = messages[i].message_type
                       /\ messages'[i].message_data = messages[i].message_data
                /\ stored.message_type = type
                /\ stored.message_data =
                       PyStr(Get(request'.data, "message_data")) ]_vars

\* a verified schedule update whose sync_event raised: the Message is stored
C7_Witness ==
    /\ last.op = "webhook" /\ last.verified /\ last.err # ""
    /\ request.data = Message(NewSchedule, EventKeyDoc)
    /\ last.calls = <<"verify_tba_webhook_call", "save_message", "sync_event">>
    /\ messages # <<>>
    /\ messages[Len(messages)].message_type = <<NewSchedule>>

\* C8: a verified webhook of a message type that is none of the known ones
\* is accepted: its payload is stored as a Message, no synchronization
\* function is called, the Event, Team, link, Match and EventTeamInfo rows
\* do not change, and the status is 200.
C8_UnknownTypeStored ==
    [][ (/\ last'.op = "webhook" /\ last'.verified
         /\ SyncFor(Get(request'.data, "message_type").s) = <<>>) =>
            /\ last'.calls = <<"verify_tba_webhook_call", "save_message">>
            /\ Len(messages') = Len(messages) + 1
            /\ SubSeq(messages', 1, Len(messages)) = messages
            /\ messages'[Len(messages')].message_type =
                   Get(request'.data, "message_type").s
            /\ messages'[Len(messages')].message_data =
                   PyStr(Get(request'.data, "message_data"))
            /\ UNCHANGED <<events, teams, team_events, matches, event_team_infos>>
            /\ last'.err = ""
            /\ last'.resp.status = 200 ]_vars

\* a verified message of type unknown_type, answered 200 when rows exist
C8_Witness ==
    /\ last.op = "webhook" /\ last.verified
    /\ request.data = Message("unknown_type", JObj(<<>>))
    /\ last.resp.status = 200
    /\ events # <<>>
    /\ messages[Len(messages)].message_type = <<"unknown_type">>

----------------------------------------------------------------------------
(* Properties of the permission-gated endpoints                             *)

ViewOps == {"SyncSeasonView", "SyncEventView", "SyncMatchesView"}

\* C9: a gated endpoint asks the permission predicate before any work: on
\* a denial the utility function is not called, no row changes, and the
\* response is HTTP 200 with error = true and a retMessage saying the caller
\* does not have access.
C9_DenialTouchesNothing ==
    [][ (last'.op \in ViewOps /\ ~last'.in.has_access) =>
            /\ last'.calls = <<>>
            /\ UNCHANGED db
            /\ last'.resp.status = 200
            /\ last'.resp.error
            /\ \E i \in DOMAIN last'.resp.retMessage :
                   last'.resp.retMessage[i].tag = "do not have access" ]_vars

\* /tba/sync-event/ denied after an earlier request had written rows
C9_Witness ==
    /\ last.op = "SyncEventView" /\ ~last.in.has_access
    /\ last.resp = Denied
    /\ events # <<>> /\ teams # <<>>

\* C10: with the permission granted, an exception of the utility function
\* does not leave the endpoint: the response is HTTP 200 with error = true;
\* a normal return gives HTTP 200 with error = false around the returned
\* value; no request to a gated endpoint ends in another status.
C10_UtilityErrorsEnveloped ==
    last.op \in ViewOps =>
        /\ last.resp.status = 200
        /\ last.in.has_access =>
               /\ last.calls # <<>>
               /\ last.err # "" => last.resp.error
               /\ last.err = "" =>
                      (~last.resp.error /\ last.resp.retMessage = last.msgs)

\* /tba/sync-season/ permitted for a season that does not exist
C10_Witness ==
    /\ last.op = "SyncSeasonView" /\ last.in.has_access
    /\ last.err = "Season.DoesNotExist"
    /\ last.resp.status = 200 /\ last.resp.error

----------------------------------------------------------------------------
(* save_message called directly                                             *)

SaveMessage(message) ==
    LET res == save_message(CurrentDb, message)
    IN  /\ Len(messages) < MaxMessages
        /\ SetDb(res.db)
        /\ last' = Called("save_message", [message |-> message], res)
        /\ UNCHANGED <<request, inflight>>

\* bodies around the limit: a str of n characters is its own str(); the
\* dict {'k': '<n characters>'} has a str() of n + 9 characters; and a
\* message without message_data
NextMessage ==
    \/ \E n \in {0, 1, MaxMessageData - 1, MaxMessageData, MaxMessageData + 1,
                 MaxMessageData + 1000} :
           SaveMessage(Message("test", JStr([i \in 1..n |-> "x"])))
    \/ \E n \in {MaxMessageData - 10, MaxMessageData - 9, MaxMessageData - 8} :
           SaveMessage(Message("test",
                               JObj(<<KV("k", JStr([i \in 1..n |-> "x"]))>>)))
    \/ \E message \in {Message("test", JNull), Message("test", JList(<<JInt(1), JInt(2)>>)),
                       JObj(<<KV("message_type", JStr(<<"test">>))>>)} :
           SaveMessage(message)

SpecMessage == InitWith({EmptyDb}) /\ [][NextMessage]_vars

----------------------------------------------------------------------------
(* Properties of save_message                                               *)

\* C11: save_message bounds the stored body: the row it writes holds the
\* first min(len(str(message_data)), 4000) characters of str(message_data),
\* a longer body cut to exactly 4000 and a body of at most 4000 whole, and
\* no Message row ever holds more than 4000 characters.
C11_MessageDataBounded ==
    /\ [](\A i \in DOMAIN messages :
              Len(messages[i].message_data) <= MaxMessageData)
    /\ [][ (last'.op = "save_message" /\ last'.err = "") =>
               LET body == PyStr(Get(last'.in.message, "message_data"))
                   stored == messages'[Len(messages')].message_data
               IN  /\ Len(messages') = Len(messages) + 1
                   /\ Len(stored) = IF Len(body) < MaxMessageData
                                    THEN Len(body) ELSE MaxMessageData
                   /\ stored = SubSeq(body, 1, Len(stored)) ]_vars

\* a body of 5000 characters was stored as 4000
C11_Witness ==
    /\ last.op = "save_message" /\ last.err = ""
    /\ Len(PyStr(Get(last.in.message, "message_data"))) = MaxMessageData + 1000
    /\ Len(messages[Len(messages)].message_data) = MaxMessageData

----------------------------------------------------------------------------
(* replace_frc_in_str called on a string, and again on its result           *)

\* the strings are those of at most MaxKeyLen characters
MaxKeyLen == 6

\* replace_frc_in_str(s) for the string drawn, then once more on the result
ReplaceFrc ==
    /\ ~last.repeat
    /\ last' = [last EXCEPT
                   !.op = "replace_frc_in_str",
                   !.in = [s |-> IF last.op = "" THEN last.in.s ELSE last.msgs,
                           from |-> last.in.from],
                   !.repeat = (last.op # ""),
                   !.msgs = replace_frc_in_str(IF last.op = "" THEN last.in.s
                                               ELSE last.msgs)]
    /\ UNCHANGED <<db, request, inflight>>

InitFrc ==
    /\ InitDb(EmptyDb)
    /\ request = NoRequest
    /\ inflight = <<>>
    /\ \E n \in 0..MaxKeyLen :
           \E s \in [1..n -> {"f", "r", "c", "3"}] :
               last = [Idle EXCEPT !.in = [s |-> s, from |-> s]]

SpecFrc == InitFrc /\ [][ReplaceFrc]_vars

----------------------------------------------------------------------------
(* Properties of replace_frc_in_str                                         *)

Frc == <<"f", "r", "c">>

HasFrc(s) == \E i \in 1..(Len(s) - 2) : SubSeq(s, i, i + 2) = Frc

RECURSIVE WholeFrc(_)
\* f, r and c occur in s only as whole occurrences of "frc"
WholeFrc(s) ==
    IF s = <<>> THEN TRUE
    ELSE IF Len(s) >= 3 /\ SubSeq(s, 1, 3) = Frc THEN WholeFrc(SubSeq(s, 4, Len(s)))
    ELSE Head(s) \notin {"f", "r", "c"} /\ WholeFrc(Tail(s))

RECURSIVE StripPrefixes(_)
\* s without its leading "frc" prefixes
StripPrefixes(s) ==
    IF Len(s) >= 3 /\ SubSeq(s, 1, 3) = Frc THEN StripPrefixes(SubSeq(s, 4, Len(s)))
    ELSE s

\* C12 as claimed: replace_frc_in_str is idempotent on every string, and
\* its result never contains "frc".
C12_Idempotent ==
    last.op = "replace_frc_in_str" =>
        /\ ~HasFrc(last.msgs)
        /\ last.repeat => last.msgs = last.in.s

\* C12 as amended: on every string in which the letters f, r and c occur
\* only as whole occurrences of "frc" (every team key), the result of
\* replace_frc_in_str contains no "frc" and replace_frc_in_str leaves that
\* result as it is.
C12_IdempotentOnKeys ==
    (last.op = "replace_frc_in_str" /\ WholeFrc(last.in.from)) =>
        /\ ~HasFrc(last.msgs)
        /\ last.repeat => last.msgs = last.in.s

\* "3frc3" went through twice: "33", then "33" again
C12_Witness ==
    /\ last.op = "replace_frc_in_str" /\ last.repeat
    /\ last.in.from = <<"3", "f", "r", "c", "3">>
    /\ last.in.s = <<"3", "3">>
    /\ last.msgs = <<"3", "3">>

\* C13 as claimed: a string that does not start with "frc" is returned as
\* it is, and "frc" + t gives t without its own leading "frc" prefixes.
C13_PrefixOnly ==
    (last.op = "replace_frc_in_str" /\ ~last.repeat) =>
        last.msgs = StripPrefixes(last.in.s)

\* C13 as amended: for every string in which "frc" occurs only as leading
\* prefixes, the result is the string without those prefixes; a string
\* without "frc" is returned as it is.
C13_PrefixesRemoved ==
    (/\ last.op = "replace_frc_in_str" /\ ~last.repeat
     /\ ~HasFrc(StripPrefixes(last.in.s))) =>
        last.msgs = StripPrefixes(last.in.s)

\* "frc3" gave "3"
C13_Witness ==
    /\ last.op = "replace_frc_in_str" /\ ~last.repeat
    /\ last.in.s = <<"f", "r", "c", "3">>
    /\ last.msgs = <<"3">>

----------------------------------------------------------------------------
(* Properties of sync_matches                                               *)

\* the place of the first match of ms that save_tba_match cannot save with
\* the events ev and teams tm, Len(ms) + 1 when there is none
FirstFailing(ms, ev, tm) ==
    IF \A i \in DOMAIN ms : Resolvable(ms[i], ev, tm) THEN Len(ms) + 1
    ELSE CHOOSE i \in DOMAIN ms :
             /\ ~Resolvable(ms[i], ev, tm)
             /\ \A j \in 1..(i - 1) : Resolvable(ms[j], ev, tm)

\* C14: sync_matches never raises because of the match data.  It goes
\* through the matches in order, returns one (ADD) or (UPDATE) line per
\* match saved and, at the first match save_tba_match raises on, exactly one
\* (ERROR) line with that match's number, and stops: the matches before it
\* are persisted, the matches after it are not saved.
C14_SyncMatchesStopsAtFirstError ==
    [][ last'.op = "sync_matches" =>
            LET ms == [i \in DOMAIN last'.in.matches.kids |->
                          last'.in.matches.kids[i].v]
                k == FirstFailing(ms, events, teams)
                saved == {Get(ms[i], "key").s : i \in 1..(k - 1)}
            IN  /\ last'.err = ""
                /\ Len(last'.msgs) = IF k <= Len(ms) THEN k ELSE Len(ms)
                /\ \A i \in 1..(k - 1) :
                       /\ last'.msgs[i].tag \in {"(ADD)", "(UPDATE)"}
                       /\ last'.msgs[i].match = Get(ms[i], "key").s
                       /\ KeyRows(matches', Get(ms[i], "key").s) # {}
                /\ k <= Len(ms) =>
                       /\ last'.msgs[k].tag = "(ERROR)"
                       /\ last'.msgs[k].number =
                              GetOr(ms[k], "match_number", JInt(0)).n
                /\ Len(matches') =
                       Len(matches)
                       + Cardinality({key \in saved : KeyRows(matches, key) = {}})
                /\ \A i \in DOMAIN matches :
                       matches[i].match_key \notin saved
                           => matches'[i] = matches[i] ]_vars

\* of three matches the first was saved, the second, naming an unknown
\* team, gave the (ERROR) line, and the third was not saved
C14_Witness ==
    /\ last.op = "sync_matches"
    /\ last.in.matches = JList(<<Qm1AgainDoc, NoTeamDoc, Qm2Doc>>)
    /\ Len(last.msgs) = 2
    /\ last.msgs[2].tag = "(ERROR)" /\ last.msgs[2].number = 4
    /\ KeyRows(matches, <<"2024pahat_qm1">>) # {}
    /\ KeyRows(matches, <<"2024pahat_qm2">>) = {}

----------------------------------------------------------------------------
(* Every function of util.py that writes, on one database                   *)

SyncEventTeamInfo(force, world) ==
    LET res == sync_event_team_info(CurrentDb, force, world.today, world.event,
                                    world.teams, world.rankings)
    IN  /\ SetDb(res.db)
        /\ last' = Called("sync_event_team_info",
                          [force |-> force, world |-> world], res)
        /\ UNCHANGED <<request, inflight>>

\* what TBA answers to the calls made on one database
AllWorlds == {w \in Worlds : w.event # PahatMovedDoc}

NextAll ==
    \/ \E tba_event \in {PahatDoc, ErrorDoc}, tba_teams \in TeamsAnswers :
           SyncEvent(1, tba_event, tba_teams)
    \/ \E season_id \in {1, 2} :
           SyncSeason(season_id, << [event |-> PahatDoc, teams |-> RosterDoc(1)] >>)
    \/ \E m \in {Qm1Doc, NoTeamDoc} : SaveTbaMatch(m)
    \/ SyncMatches(1, JList(<<Qm1AgainDoc, NoTeamDoc, Qm2Doc>>))
    \/ \E force \in {0, 1}, world \in AllWorlds : SyncEventTeamInfo(force, world)
    \/ SaveMessage(Message("ping", JNull))

SpecAll == InitWith({EmptyDb, SeededDb, VoidedDb, MatchDb}) /\ [][NextAll]_vars

----------------------------------------------------------------------------
(* Properties of the error handling of the synchronization helpers          *)

SyncHelpers == {"sync_season", "sync_event", "sync_event_team_info", "sync_matches"}

\* what a lookup raises when the record is not found
LookupFailures == {"Season.DoesNotExist", "Event.DoesNotExist", "Team.DoesNotExist"}

\* C15 as stated: no synchronization helper lets a record-not-found failure
\* of a lookup reach its caller.
C15_HelpersSwallowLookupFailures ==
    last.op \in SyncHelpers => last.err \notin LookupFailures

\* C15: of the synchronization helpers only sync_matches catches a lookup
\* failure: it returns an (ERROR) line for the first match whose lookups
\* fail and raises nothing.  sync_season called for a season that does not
\* exist raises Season.DoesNotExist, sync_event_team_info called while no
\* event is current raises Event.DoesNotExist, neither returns a message,
\* and neither writes anything.
C15_OnlySyncMatchesSwallows ==
    [][ /\ last'.op = "sync_matches" =>
               LET ms == [i \in DOMAIN last'.in.matches.kids |->
                             last'.in.matches.kids[i].v]
                   k == FirstFailing(ms, events, teams)
               IN  /\ last'.err = ""
                   /\ k <= Len(ms) => last'.msgs[Len(last'.msgs)].tag = "(ERROR)"
        /\ (last'.op = "sync_season" /\ last'.in.season \notin Seasons) =>
               /\ last'.err = "Season.DoesNotExist"
               /\ last'.msgs = <<>>
               /\ CurrentDb' = CurrentDb
        /\ (last'.op = "sync_event_team_info" /\ CurrentIds(CurrentDb) = {}) =>
               /\ last'.err = "Event.DoesNotExist"
               /\ last'.msgs = <<>>
               /\ CurrentDb' = CurrentDb ]_vars

\* sync_season was called for a season that does not exist and raised
C15_Witness ==
    /\ last.op = "sync_season"
    /\ last.in.season \notin Seasons
    /\ last.err = "Season.DoesNotExist"

----------------------------------------------------------------------------
(* Properties of the fetches of sync_event                                  *)

\* C16: get_tba_event raises whenever the response carries an Error field,
\* and sync_event makes both fetches before its first write: a sync_event
\* one of whose fetches raised propagates that exception and leaves every
\* Event, every Team and every Team-Event link as it was.
C16_FailedFetchWritesNothing ==
    [][ last'.op = "sync_event" =>
            /\ GetOr(last'.in.event, "Error", JNull) # JNull
                   => last'.err = "Exception"
            /\ (\/ get_tba_event(last'.in.event).err # ""
                \/ get_tba_event_teams(last'.in.teams).err # "") =>
                   /\ last'.err # ""
                   /\ last'.msgs = <<>>
                   /\ events' = events
                   /\ teams' = teams
                   /\ team_events' = team_events ]_vars

\* the event fetch was answered with an Error while the event was stored
C16_Witness ==
    /\ last.op = "sync_event"
    /\ last.in.event = ErrorDoc
    /\ last.err = "Exception"
    /\ events # <<>>

\* the team fetch alone failed, for an event that was not stored yet
C16_TeamsFetchFailed ==
    /\ last.op = "sync_event"
    /\ last.in.event = PahatDoc /\ last.in.teams = BrokenRosterDoc
    /\ last.err = "KeyError"
    /\ events = <<>>

----------------------------------------------------------------------------
(* Properties of the timezone of an event                                   *)

\* the rows of ev with the event code of the answer tba_event
RowsOf(ev, tba_event) ==
    {i \in DOMAIN ev : ev[i].event_cd = Get(tba_event, "key").s}

\* C17: when the event TBA reports has no timezone, or a null one, the
\* timezone sync_event stores on the Event is America/New_York, never null,
\* and it is the zone date_st and date_end were localised in.
C17_TimezoneDefaultsToNewYork ==
    [][ ( /\ last'.op = "sync_event" /\ last'.err = ""
          /\ GetOr(last'.in.event, "timezone", JNull) = JNull ) =>
            \A i \in RowsOf(events', last'.in.event) :
                /\ events'[i].timezone = JStr(<<NewYork>>)
                /\ events'[i].date_st.tz = NewYork
                /\ events'[i].date_end.tz = NewYork ]_vars

\* an event reported with "timezone": null was stored with a null timezone
\* and dates localised in America/New_York
C17_NullTimezoneStored ==
    /\ last.op = "sync_event" /\ last.err = ""
    /\ Has(last.in.event, "timezone")
    /\ Get(last.in.event, "timezone") = JNull
    /\ \E i \in RowsOf(events, last.in.event) :
           /\ events[i].timezone = JNull
           /\ events[i].date_st.tz = NewYork

----------------------------------------------------------------------------
(* Properties of the upsert on a record that exists                         *)

\* C18: a synchronization that finds the record it was given updates it in
\* place and leaves it with void_ind 'n': sync_event for the Event found by
\* event code and for each Team of the roster found by team number,
\* save_tba_match for the Match found by match key.
C18_UpsertHitClearsVoid ==
    [][ /\ (last'.op = "sync_event" /\ last'.err = "") =>
               /\ \A i \in RowsOf(events, last'.in.event) :
                      /\ events'[i].void_ind = "n"
                      /\ events'[i].event_nm = Get(last'.in.event, "name")
               /\ \A i \in DOMAIN last'.in.teams.kids :
                      LET t == last'.in.teams.kids[i].v
                          no == Get(t, "team_number").n
                      IN  no \in DOMAIN teams =>
                              /\ teams'[no].void_ind = "n"
                              /\ teams'[no].team_nm = Get(t, "nickname").s
        /\ (last'.op = "save_tba_match" /\ last'.err = "") =>
               \A i \in KeyRows(matches, Get(last'.in.match, "key").s) :
                   matches'[i].void_ind = "n" ]_vars

\* sync_event found the soft-deleted team 1 in the roster, linked it to the
\* event, and left it soft-deleted
C18_VoidedTeamStaysVoided ==
    /\ last.op = "sync_event" /\ last.err = ""
    /\ 1 \in RosterNos(last.in.teams)
    /\ <<1, 1>> \in team_events
    /\ teams[1].void_ind = "y"
    /\ events[1].void_ind = "n"

----------------------------------------------------------------------------
(* Properties of the teams of a match                                       *)

\* the six teams of the Match row are linked to its Event
TeamsAtEvent(row, links) ==
    \A i \in 1..6 : <<SlotTeams(row)[i], row.event>> \in links

\* C19: in every reachable state the six teams of every Match are linked to
\* the Match's Event, and save_tba_match never writes a Match naming a team
\* that is not linked to the event.
C19_MatchTeamsAtEvent ==
    /\ [](\A i \in DOMAIN matches : TeamsAtEvent(matches[i], team_events))
    /\ [][ (last'.op = "save_tba_match" /\ last'.err = "") =>
               \A i \in KeyRows(matches', Get(last'.in.match, "key").s) :
                   TeamsAtEvent(matches'[i], team_events) ]_vars

\* save_tba_match saved a match naming a team that was not linked to the
\* event when it was called
C19_UnlinkedTeamSaved ==
    /\ last.op = "save_tba_match" /\ last.err = ""
    /\ ~last.repeat
    /\ \E i \in KeyRows(matches, Get(last.in.match, "key").s) :
           /\ Len(last.msgs) = 1 /\ last.msgs[1].tag = "(ADD)"
           /\ ~TeamsAtEvent(matches[i], team_events)

----------------------------------------------------------------------------
(* Properties of the life of the records                                    *)

\* the (event, teams) answers a call passed to sync_event
SyncedAnswers(l) ==
    CASE l.op = "sync_event" -> {[event |-> l.in.event, teams |-> l.in.teams]}
      [] l.op = "sync_season" -> {l.in.answers[i] : i \in DOMAIN l.in.answers}
      [] l.op = "sync_event_team_info" ->
             {[event |-> l.in.world.event, teams |-> l.in.world.teams]}
      [] OTHER -> {}

\* C20: no operation deletes a record.  Over every step of sync_season,
\* sync_event, sync_matches, save_tba_match, sync_event_team_info and
\* save_message every Event, Team, Match, EventTeamInfo and Message that
\* existed still exists, under the same key.  Only Team-Event links are
\* removed, and only by sync_event (called directly, or by sync_season or
\* sync_event_team_info), for the event it synchronizes and a team that is
\* not in the roster reported for that event.
C20_NoHardDelete ==
    [][ /\ Len(events') >= Len(events)
        /\ \A i \in DOMAIN events : events'[i].event_cd = events[i].event_cd
        /\ DOMAIN teams \subseteq DOMAIN teams'
        /\ Len(matches') >= Len(matches)
        /\ \A i \in DOMAIN matches : matches'[i].match_key = matches[i].match_key
        /\ Len(event_team_infos') >= Len(event_team_infos)
        /\ \A i \in DOMAIN event_team_infos :
               /\ event_team_infos'[i].event = event_team_infos[i].event
               /\ event_team_infos'[i].team = event_team_infos[i].team
        /\ Len(messages') >= Len(messages)
        /\ \A i \in DOMAIN messages : messages'[i] = messages[i]
        /\ \A link \in team_events \ team_events' :
               \E a \in SyncedAnswers(last') :
                   /\ GetOr(a.event, "Error", JNull) = JNull
                   /\ events[link[2]].event_cd = Get(a.event, "key").s
                   /\ link[1] \notin RosterNos(a.teams) ]_vars

\* sync_event removed the link of team 2 * AllianceSize, which the roster
\* no longer lists, and the Team and the Event are still there
C20_Witness ==
    /\ last.op = "sync_event" /\ last.err = ""
    /\ \E i \in DOMAIN last.msgs :
           /\ last.msgs[i].tag = "(REMOVE) Removed team"
           /\ last.msgs[i].team = 2 * AllianceSize
    /\ <<2 * AllianceSize, 1>> \notin team_events
    /\ 2 * AllianceSize \in DOMAIN teams
    /\ Len(events) = 1

----------------------------------------------------------------------------
(* sync_event_team_info called on its own                                   *)

RecordDoc(wins, losses, ties) ==
    KV("record", JObj(<< KV("wins", JInt(wins)), KV("losses", JInt(losses)),
                         KV("ties", JInt(ties)) >>))

\* one entry of /event/<cd>/rankings, with the fields `more` after its key
RankingDoc(no, more) == JObj(<<KV("team_key", FrcKey(no))>> \o more)

RankingsOfDocs(entries) == JObj(<<KV("rankings", JList(entries))>>)

\* what /event/<cd>/rankings may answer: the ranking of team 1; team 2 and
\* then team 1 without a record; team 1 twice; a team with nothing but a
\* record; a team without the record key; a team that has no Team row; no
\* rankings at all
RankingsAnswers ==
    { RankingsDoc,
      RankingsOfDocs(<< RankingDoc(2, <<KV("rank", JInt(1)), RecordDoc(1, 0, 0)>>),
                        RankingDoc(1, <<KV("rank", JInt(2)), KV("record", JNull)>>) >>),
      RankingsOfDocs(<< RankingDoc(1, <<KV("rank", JInt(3)), RecordDoc(0, 1, 0)>>),
                        RankingDoc(1, <<KV("rank", JInt(2)), RecordDoc(0, 0, 1)>>) >>),
      RankingsOfDocs(<< RankingDoc(2, <<RecordDoc(0, 0, 0)>>) >>),
      RankingsOfDocs(<< RankingDoc(2, <<KV("rank", JInt(1))>>) >>),
      RankingsOfDocs(<< RankingDoc(1, <<KV("rank", JInt(2)), RecordDoc(1, 1, 0)>>),
                        RankingDoc(MaxTeamNo + 5, <<RecordDoc(0, 0, 0)>>) >>),
      RankingsOfDocs(<<>>),
      JObj(<<>>) }

InfoWorld(tba_event, tba_rankings, today) ==
    [event |-> tba_event, teams |-> RosterDoc(1), matches |-> JList(<<>>),
     rankings |-> tba_rankings, today |-> today]

\* the calls made: unforced around both ends of the event's dates, forced
\* after the event, unforced during the event, and unforced while TBA
\* reports the event a day earlier
InfoCalls ==
    {[force |-> 0, world |-> InfoWorld(PahatDoc, RankingsDoc, today)] :
        today \in {14, 15, 17, 18}}
    \cup {[force |-> 1, world |-> InfoWorld(PahatDoc, r, 18)] : r \in RankingsAnswers}
    \cup {[force |-> 0, world |-> InfoWorld(PahatDoc, r, 16)] : r \in RankingsAnswers}
    \cup {[force |-> 0, world |-> InfoWorld(PahatMovedDoc, RankingsDoc, today)] :
             today \in {14, 17}}

\* the seeded rows with a soft-deleted ranking of team 1 at the event
EtiVoidedDb ==
    [SeededDb EXCEPT !.event_team_infos =
        << [NewEti(1, 1) EXCEPT !.rank = JInt(9), !.void_ind = "y"] >>]

NextInfo == \E call \in InfoCalls : SyncEventTeamInfo(call.force, call.world)

SpecInfo == InitWith({EmptyDb, SeededDb, EtiVoidedDb}) /\ [][NextInfo]_vars

----------------------------------------------------------------------------
(* Properties of sync_event_team_info                                       *)

\* the entries of the rankings answer
Entries(tba_rankings) ==
    LET list == GetOr(tba_rankings, "rankings", JList(<<>>))
    IN  [i \in DOMAIN list.kids |-> list.kids[i].v]

EntryTeam(entry) == ToNumber(replace_frc_in_str(Get(entry, "team_key").s))

\* one EventTeamInfo of (event_id, team of the entry) carries the entry
Written(eti, event_id, entry) ==
    \E i \in DOMAIN eti :
        /\ eti[i].event = event_id
        /\ eti[i].team = EntryTeam(entry)
        /\ eti[i].rank = GetOr(entry, "rank", JInt(0))

NoActiveEvent == <<Line("No active event", <<>>, 0, <<>>)>>

\* C21: sync_event_team_info writes rankings only while the current event is
\* active or when forced.  Unforced and with today outside [date_st,
\* date_end] of the current event it returns 'No active event' and leaves
\* every EventTeamInfo as it was; forced, or with today within the dates,
\* both ends included, a call that returns has written every ranking entry
\* to an EventTeamInfo of (current event, team), the last entry of a team
\* standing.
C21_RankingsOnlyWhenActive ==
    [][ (last'.op = "sync_event_team_info" /\ Cardinality(CurrentIds(CurrentDb)) = 1) =>
            LET e == CHOOSE i \in CurrentIds(CurrentDb) : TRUE
                today == last'.in.world.today
                active == \/ last'.in.force = 1
                          \/ /\ events[e].date_st.day <= today
                             /\ today <= events[e].date_end.day
                entries == Entries(last'.in.world.rankings)
            IN  /\ ~active =>
                       /\ last'.err = ""
                       /\ last'.msgs = NoActiveEvent
                       /\ event_team_infos' = event_team_infos
                /\ (active /\ last'.err = "") =>
                       /\ last'.msgs # NoActiveEvent
                       /\ Len(last'.msgs) = Len(entries)
                       /\ \A i \in DOMAIN entries :
                              (\A j \in (i + 1)..Len(entries) :
                                   EntryTeam(entries[j]) # EntryTeam(entries[i]))
                                  => Written(event_team_infos', e, entries[i]) ]_vars

\* unforced on the last day of the event the ranking of team 1 was written
C21_Witness ==
    /\ last.op = "sync_event_team_info" /\ last.err = ""
    /\ last.in.force = 0 /\ last.in.world.today = 17
    /\ last.in.world.event = PahatDoc
    /\ Len(last.msgs) = 1 /\ last.msgs[1].tag \in {"(ADD)", "(UPDATE)"}
    /\ \E i \in DOMAIN event_team_infos :
           event_team_infos[i].team = 1 /\ event_team_infos[i].rank = JInt(1)

\* unforced on the day after the event nothing was written
C21_Inactive ==
    /\ last.op = "sync_event_team_info"
    /\ last.in.force = 0 /\ last.in.world.today = 18
    /\ last.msgs = NoActiveEvent
    /\ event_team_infos = <<>>

----------------------------------------------------------------------------
(* get_tba_event_team_info called on its own                                *)

MaxRankings == 2

\* the entries TBA may report: with a record, with a null record, without
\* the record key; with or without a rank
RankingEntries ==
    { RankingDoc(no, rank \o record) :
        no \in {1, 2},
        rank \in {<<>>, <<KV("rank", JInt(3)), KV("dq", JInt(1))>>},
        record \in {<<>>, <<KV("record", JNull)>>, <<RecordDoc(1, 2, 3)>>} }

RankingsInputs ==
    {JObj(<<>>), JObj(<<KV("rankings", JNull)>>)}
    \cup UNION { {RankingsOfDocs(entries) : entries \in [1..n -> RankingEntries]} :
                 n \in 0..MaxRankings }

GetTbaEventTeamInfo ==
    LET res == get_tba_event_team_info(last.in.rankings)
    IN  /\ last.op = ""
        /\ last' = [last EXCEPT !.op = "get_tba_event_team_info",
                                !.err = res.err, !.msgs = res.ret]
        /\ UNCHANGED <<db, request, inflight>>

InitRankings ==
    /\ InitDb(EmptyDb)
    /\ request = NoRequest
    /\ inflight = <<>>
    /\ \E rankings \in RankingsInputs : last = [Idle EXCEPT !.in = [rankings |-> rankings]]

SpecRankings == InitRankings /\ [][GetTbaEventTeamInfo]_vars

----------------------------------------------------------------------------
(* Properties of get_tba_event_team_info                                    *)

NoRecord(entry) == GetOr(entry, "record", JNull) = JNull

\* C22: get_tba_event_team_info never raises on these answers and returns
\* one entry per reported ranking, in order: team_id is the team key
\* without its frc prefix, an entry whose record is absent or null has wins
\* = losses = ties = 0, absent rank, dq, matches_played and qual_average are
\* 0, and an answer whose rankings are absent, null or empty gives the empty
\* list.
C22_RankingDefaults ==
    last.op = "get_tba_event_team_info" =>
        LET rankings == GetOr(last.in.rankings, "rankings", JNull)
            entries == IF rankings = JNull THEN <<>>
                       ELSE [i \in DOMAIN rankings.kids |-> rankings.kids[i].v]
        IN  /\ last.err = ""
            /\ Len(last.msgs) = Len(entries)
            /\ \A i \in DOMAIN entries :
                   /\ <<"f", "r", "c">> \o last.msgs[i].team_id
                          = Get(entries[i], "team_key").s
                   /\ NoRecord(entries[i]) =>
                          /\ last.msgs[i].wins = JInt(0)
                          /\ last.msgs[i].losses = JInt(0)
                          /\ last.msgs[i].ties = JInt(0)
                   /\ last.msgs[i].rank = GetOr(entries[i], "rank", JInt(0))
                   /\ last.msgs[i].dq = GetOr(entries[i], "dq", JInt(0))
                   /\ last.msgs[i].matches_played = JInt(0)
                   /\ last.msgs[i].qual_average = JInt(0)

\* an entry without the record key made the function raise KeyError
C22_AbsentRecordRaises ==
    /\ last.op = "get_tba_event_team_info"
    /\ last.in.rankings = RankingsOfDocs(<<RankingDoc(1, <<>>)>>)
    /\ last.err = "KeyError"

\* rankings reported as null made the function raise TypeError
C22_NullRankingsRaise ==
    /\ last.op = "get_tba_event_team_info"
    /\ last.in.rankings = JObj(<<KV("rankings", JNull)>>)
    /\ last.err = "TypeError"

----------------------------------------------------------------------------
(* Properties of the message of sync_event                                  *)

\* the lines of msgs with one of the tags that name the team no
TeamLinesOf(msgs, tags, no) ==
    {i \in DOMAIN msgs : msgs[i].tag \in tags /\ msgs[i].team = no}

\* C23: the message of sync_event tells what was done.  For each reported
\* team it holds exactly one of '(ADD) Added team' (the Team was inserted)
\* and '(NO ADD) Already have team' (it existed), and exactly one of '(LINK)
\* Added team' (the team was not linked to the event before the call) and
\* '(NO LINK)' (it was); it holds one '(REMOVE)' line per link removed, and
\* '(ADD) Added event' exactly when no Event of that code existed.
C23_MessageTellsBranches ==
    [][ (last'.op = "sync_event" /\ last'.err = "") =>
            LET found == RowsOf(events, last'.in.event)
                e == CHOOSE i \in RowsOf(events', last'.in.event) : TRUE
                msgs == last'.msgs
            IN  /\ \A no \in RosterNos(last'.in.teams) :
                       /\ Cardinality(TeamLinesOf(msgs, {"(ADD) Added team",
                                          "(NO ADD) Already have team"}, no)) = 1
                       /\ TeamLinesOf(msgs, {"(ADD) Added team"}, no) # {}
                              <=> no \notin DOMAIN teams
                       /\ Cardinality(TeamLinesOf(msgs, {"(LINK) Added team",
                                          "(NO LINK) Team"}, no)) = 1
                       /\ TeamLinesOf(msgs, {"(LINK) Added team"}, no) # {}
                              <=> <<no, e>> \notin team_events
                /\ \A no \in DOMAIN teams :
                       Cardinality(TeamLinesOf(msgs, {"(REMOVE) Removed team"}, no))
                           = IF <<no, e>> \in team_events \ team_events' THEN 1 ELSE 0
                /\ (\E i \in DOMAIN msgs : msgs[i].tag = "(ADD) Added event")
                       <=> found = {} ]_vars

\* the same roster synchronized twice: the second call reports '(LINK) Added
\* team' for team 1, which the first call had linked
C23_RelinkReportedAsLink ==
    /\ last.op = "sync_event" /\ last.err = "" /\ last.repeat
    /\ 1 \in RosterNos(last.in.teams)
    /\ TeamLinesOf(last.msgs, {"(LINK) Added team"}, 1) # {}
    /\ TeamLinesOf(last.msgs, {"(NO ADD) Already have team"}, 1) # {}

----------------------------------------------------------------------------
(* Properties of the current event                                          *)

\* C24: at most one event is current.  Starting with at most one Event with
\* current = 'y', every state has at most one: every operation leaves the
\* current flag of the events that exist as it was and sync_event creates
\* events with current = 'n', so the lookup of the current event in
\* sync_event_team_info never finds two.
C24_AtMostOneCurrent ==
    /\ [](Cardinality(CurrentIds(CurrentDb)) <= 1)
    /\ [][ /\ \A i \in DOMAIN events : events'[i].current = events[i].current
           /\ \A i \in DOMAIN events' \ DOMAIN events : events'[i].current = "n"
           /\ last'.op = "sync_event_team_info"
                  => last'.err # "MultipleObjectsReturned" ]_vars

\* sync_event created the event, not current, and a sync_event_team_info
\* after it found no current event
C24_Witness ==
    /\ last.op = "sync_event_team_info"
    /\ last.err = "Event.DoesNotExist"
    /\ Len(events) = 1
    /\ events[1].current = "n"

----------------------------------------------------------------------------
(* Properties of a save_tba_match that fails                                *)

\* C25: save_tba_match is all-or-nothing.  It resolves the event, the six
\* teams (each with void_ind 'n') and the competition level, and reads
\* every key it needs, before its first write: when one of them is missing
\* it raises, and whenever it raises no Match was created or modified.
C25_FailedSaveWritesNothing ==
    [][ last'.op = "save_tba_match" =>
            /\ ~Resolvable(last'.in.match, events, teams) => last'.err # ""
            /\ last'.err # "" => (matches' = matches /\ last'.msgs = <<>>) ]_vars

\* with matches stored, a match of a soft-deleted competition level was
\* refused
C25_Witness ==
    /\ last.op = "save_tba_match"
    /\ last.in.match = FinalDoc
    /\ last.err # ""
    /\ matches # <<>>
    /\ KeyRows(matches, Get(FinalDoc, "key").s) = {}

----------------------------------------------------------------------------
(* sync_event followed by sync_matches                                      *)

\* a match whose two alliances are the teams first .. first + AllianceSize - 1
RosterMatchDoc(first) ==
    MatchDoc("2024pahat_qm5", 5, "2024pahat", Alliance(first, JInt(10)),
             Alliance(first, JInt(20)), "qm", JInt(1640000000))

NextRoster ==
    \/ \E tba_event \in {PahatDoc, PahatMovedDoc}, tba_teams \in TeamsAnswers :
           SyncEvent(1, tba_event, tba_teams)
    \/ \E first \in 1..(MaxTeamNo - AllianceSize + 1) :
           SyncMatches(1, JList(<<RosterMatchDoc(first)>>))

SpecRoster == InitWith({EmptyDb, SeededDb, VoidedDb}) /\ [][NextRoster]_vars

\* C26: after sync_event has synchronized an event with the roster R every
\* team of R has a Team row with void_ind 'n', whatever the Team rows were
\* before; hence a sync_matches that follows it on that event, with matches
\* naming only teams of R and an existing competition level, saves every
\* match and returns no '(ERROR)' line.
C26_RosterTeamsResolvable ==
    /\ []( (last.op = "sync_event" /\ last.err = "") =>
               \A no \in RosterNos(last.in.teams) :
                   no \in DOMAIN teams /\ teams[no].void_ind = "n" )
    /\ [][ ( /\ last.op = "sync_event" /\ last.err = ""
             /\ last'.op = "sync_matches"
             /\ \A i \in DOMAIN last'.in.matches.kids :
                    \A s \in 1..6 :
                        NamedTeams(last'.in.matches.kids[i].v)[s]
                            \in RosterNos(last.in.teams) ) =>
               /\ Len(last'.msgs) = Len(last'.in.matches.kids)
               /\ \A i \in DOMAIN last'.msgs : last'.msgs[i].tag # "(ERROR)" ]_vars

\* right after a sync_event whose roster listed team 1, a match of teams 1,
\* 2 and 3 was refused: team 1 is linked to the event and still soft-deleted
C26_RosterMatchRefused ==
    /\ last.op = "sync_matches"
    /\ last.in.matches = JList(<<RosterMatchDoc(1)>>)
    /\ Len(last.msgs) = 1 /\ last.msgs[1].tag = "(ERROR)"
    /\ \A no \in 1..AllianceSize : <<no, 1>> \in team_events
    /\ teams[1].void_ind = "y"
    /\ matches = <<>>

----------------------------------------------------------------------------
(* Properties of the rankings stored                                        *)

\* the EventTeamInfo rows of the pair, soft-deleted ones included
PairRows(eti, event_id, team_no) ==
    {i \in DOMAIN eti : eti[i].event = event_id /\ eti[i].team = team_no}

\* C27: rankings are unique per (event, team).  Every state holds at most
\* one EventTeamInfo per pair, and a ranking for a pair that has an
\* EventTeamInfo, soft-deleted or not, reports '(UPDATE)' and overwrites it.
C27_OneInfoPerPair ==
    /\ [](\A i, j \in DOMAIN event_team_infos :
              ( /\ event_team_infos[i].event = event_team_infos[j].event
                /\ event_team_infos[i].team = event_team_infos[j].team ) => i = j)
    /\ [][ ( /\ last'.op = "sync_event_team_info" /\ last'.err = ""
             /\ last'.msgs # NoActiveEvent ) =>
               LET e == CHOOSE i \in CurrentIds(CurrentDb) : TRUE
                   entries == Entries(last'.in.world.rankings)
               IN  \A i \in DOMAIN entries :
                       PairRows(event_team_infos, e, EntryTeam(entries[i])) # {} =>
                           /\ last'.msgs[i].tag = "(UPDATE)"
                           /\ PairRows(event_team_infos', e, EntryTeam(entries[i]))
                                  = PairRows(event_team_infos, e, EntryTeam(entries[i])) ]_vars

\* team 1 has two rankings at the event, the soft-deleted one and the one a
\* sync_event_team_info added next to it
C27_SecondInfoAdded ==
    /\ last.op = "sync_event_team_info" /\ last.err = ""
    /\ Len(last.msgs) = 1 /\ last.msgs[1].tag = "(ADD)" /\ last.msgs[1].team = 1
    /\ Cardinality(PairRows(event_team_infos, 1, 1)) = 2
    /\ \E i \in PairRows(event_team_infos, 1, 1) : event_team_infos[i].void_ind = "y"

----------------------------------------------------------------------------
(* Properties of the re-sync inside sync_event_team_info                    *)

\* today lies within the dates of the event row
During(event, today) ==
    event.date_st.day <= today /\ today <= event.date_end.day

\* C28: sync_event_team_info first re-synchronizes the current event and its
\* roster, forced or not: the Event, Team and link records become what
\* sync_event makes of them even when the answer is 'No active event'.  The
\* activity check then uses the date_st and date_end the event had before
\* that re-sync, not the dates sync_event has just written.
C28_ResyncBeforeStaleCheck ==
    [][ (last'.op = "sync_event_team_info" /\ Cardinality(CurrentIds(CurrentDb)) = 1) =>
            LET e == CHOOSE i \in CurrentIds(CurrentDb) : TRUE
                synced == sync_event(CurrentDb, events[e].season,
                                     last'.in.world.event, last'.in.world.teams)
            IN  /\ events' = synced.db.events
                /\ teams' = synced.db.teams
                /\ team_events' = synced.db.team_events
                /\ last'.err = "" =>
                       ( last'.msgs = NoActiveEvent
                           <=> /\ last'.in.force # 1
                               /\ ~During(events[e], last'.in.world.today) ) ]_vars

\* the event was moved a day earlier by the re-sync, today is its new first
\* day, and the answer was 'No active event'
C28_Witness ==
    /\ last.op = "sync_event_team_info" /\ last.err = ""
    /\ ~last.repeat
    /\ last.in.force = 0 /\ last.in.world.today = 14
    /\ last.in.world.event = PahatMovedDoc
    /\ last.msgs = NoActiveEvent
    /\ During(events[1], 14)
    /\ events[1].event_nm = Get(PahatMovedDoc, "name")

----------------------------------------------------------------------------
(* Updates with another season, event or match number                      *)

\* the key of qualification match 1 reported for the other event
Qm1ElsewhereDoc ==
    MatchDoc("2024pahat_qm1", 21, "2024mrcmp", Alliance(1, JInt(5)),
             Alliance(1 + AllianceSize, JInt(6)), "qm", JInt(1640000000))

NextIdentity ==
    \/ \E season \in {1, 2}, tba_event \in {PahatDoc, PahatMovedDoc, MrcmpDoc} :
           SyncEvent(season, tba_event, RosterDoc(1))
    \/ \E m \in {Qm1Doc, Qm1AgainDoc, Qm1ElsewhereDoc, Qm2Doc} : SaveTbaMatch(m)

SpecIdentity == InitWith({EmptyDb, MatchDb}) /\ [][NextIdentity]_vars

\* C29: the update paths keep the identity of the record.  A Match that
\* exists keeps its event and match_number whatever event_key and
\* match_number the payload carries, and an Event that exists keeps its
\* season, current flag and competition_page_active flag whatever season is
\* passed to sync_event.
C29_UpdateKeepsIdentity ==
    [][ /\ \A i \in DOMAIN matches :
               /\ matches'[i].match_key = matches[i].match_key
               /\ matches'[i].event = matches[i].event
               /\ matches'[i].match_number = matches[i].match_number
        /\ \A i \in DOMAIN events :
               /\ events'[i].event_cd = events[i].event_cd
               /\ events'[i].season = events[i].season
               /\ events'[i].current = events[i].current
               /\ events'[i].competition_page_active
                      = events[i].competition_page_active ]_vars

\* match 1 of event 1 was updated from a payload of the other event with
\* match number 21, and is still match 1 of event 1
C29_Witness ==
    /\ last.op = "save_tba_match" /\ last.err = ""
    /\ last.in.match = Qm1ElsewhereDoc
    /\ last.msgs[1].tag = "(UPDATE)"
    /\ \E i \in KeyRows(matches, <<"2024pahat_qm1">>) :
           /\ events[matches[i].event].event_cd = <<"2024pahat">>
           /\ matches[i].match_number \in {1, 11}
           /\ matches[i].red_score = JInt(5)

\* the event of season 1 was synchronized under season 2 and is still of
\* season 1 and current
C29_EventKeepsSeason ==
    /\ last.op = "sync_event" /\ last.err = ""
    /\ last.in.season = 2 /\ last.in.event = PahatMovedDoc
    /\ events[1].season = 1 /\ events[1].current = "y"
    /\ events[1].event_nm = Get(PahatMovedDoc, "name")

----------------------------------------------------------------------------
(* Two requests at once                                                     *)
(* Each request runs in its own thread with autocommit: the lookup of an    *)
(* upsert and the write that follows it are separate statements, and the    *)
(* other request may run between them.  util.py does not show whether the   *)
(* tables hold a unique constraint on event_cd or match_key, or whether     *)
(* match_key is the primary key: a write that meets a row of its key which  *)
(* its lookup had missed may take any of the outcomes these schemas give.   *)

Requests == {1, 2}

\* a call that has not reached its lookup yet
Pending(op, in) == [op |-> op, in |-> in, pc |-> "lookup", found |-> {}, err |-> ""]

Finished(p, err) == [inflight EXCEPT ![p].pc = "done", ![p].err = err]

\* data = get_tba_event(...); data["teams"] = ...; Event.objects.get(event_cd)
EventLookup(p) ==
    LET r == inflight[p]
        fetched == get_tba_event(r.in.event)
    IN  /\ r.op = "sync_event" /\ r.pc = "lookup"
        /\ inflight' = [inflight EXCEPT
                           ![p].pc = "write",
                           ![p].found = EventIds(CurrentDb, fetched.data.event_cd)]
        /\ UNCHANGED <<db, request, last>>

\* the rest of sync_event, on what the lookup found: the update of the row
\* found, or event.save(force_insert=True), which adds a second row of the
\* code or raises IntegrityError when the other request has inserted it
EventWrite(p) ==
    LET r == inflight[p]
        data == get_tba_event(r.in.event).data
        roster == get_tba_event_teams(r.in.teams).teams
        now == EventIds(CurrentDb, data.event_cd)
        written == SyncEventRows(CurrentDb, r.in.season, data, roster, r.found,
                                 IF r.found # {} THEN CHOOSE i \in r.found : TRUE
                                 ELSE Len(events) + 1)
    IN  /\ r.op = "sync_event" /\ r.pc = "write"
        /\ \/ /\ SetDb(written.db)
              /\ inflight' = Finished(p, "")
              /\ last' = Called("sync_event", r.in, written)
           \/ /\ r.found = {} /\ now # {}
              /\ inflight' = Finished(p, "IntegrityError")
              /\ last' = Called("sync_event", r.in,
                                Result(CurrentDb, "IntegrityError", <<>>))
              /\ UNCHANGED db
        /\ UNCHANGED request

\* the lookups of save_tba_match up to Match.objects.get(Q(match_key=...))
MatchLookup(p) ==
    LET r == inflight[p]
        err == SaveTbaMatchErr(CurrentDb, r.in.match)
    IN  /\ r.op = "save_tba_match" /\ r.pc = "lookup"
        /\ inflight' = IF err # "" THEN Finished(p, err)
                       ELSE [inflight EXCEPT
                                ![p].pc = "write",
                                ![p].found = MatchIds(CurrentDb,
                                                      Get(r.in.match, "key").s)]
        /\ UNCHANGED <<db, request, last>>

\* match.save() on what the lookup found: the update of the row found, or
\* the save of a new Match, which, when the other request has saved the key,
\* overwrites that row (match_key the primary key), adds a second row, or
\* raises IntegrityError
MatchWrite(p) ==
    LET r == inflight[p]
        m == r.in.match
        now == MatchIds(CurrentDb, Get(m, "key").s)
        line(tag) == << MatchLine(tag, Get(m, "event_key").s, Get(m, "key").s,
                                  GetOr(m, "match_number", JInt(0)).n) >>
    IN  /\ r.op = "save_tba_match" /\ r.pc = "write"
        /\ \/ /\ r.found # {}
              /\ matches' = RowsFor(CurrentDb, m, r.found)
              /\ inflight' = Finished(p, "")
              /\ last' = Called("save_tba_match", r.in,
                                Result(CurrentDb, "", line("(UPDATE)")))
           \/ /\ r.found = {}
              /\ matches' = Append(matches, NewMatch(CurrentDb, m))
              /\ inflight' = Finished(p, "")
              /\ last' = Called("save_tba_match", r.in,
                                Result(CurrentDb, "", line("(ADD)")))
           \/ /\ r.found = {} /\ now # {}
              /\ matches' = [matches EXCEPT
                                ![CHOOSE i \in now : TRUE] = NewMatch(CurrentDb, m)]
              /\ inflight' = Finished(p, "")
              /\ last' = Called("save_tba_match", r.in,
                                Result(CurrentDb, "", line("(ADD)")))
           \/ /\ r.found = {} /\ now # {}
              /\ UNCHANGED matches
              /\ inflight' = Finished(p, "IntegrityError")
              /\ last' = Called("save_tba_match", r.in,
                                Result(CurrentDb, "IntegrityError", <<>>))
        /\ UNCHANGED <<events, teams, team_events, event_team_infos, messages,
                       request>>

\* the two requests carry the same event code, or the same match key
RaceEventInputs ==
    {[season |-> 1, event |-> tba_event, teams |-> tba_teams] :
        tba_event \in {PahatDoc, PahatMovedDoc},
        tba_teams \in {JList(<<>>), RosterDoc(1)}}

RaceMatchInputs == {[match |-> m] : m \in {Qm1Doc, Qm1AgainDoc}}

InitRace ==
    /\ request = NoRequest
    /\ last = Idle
    /\ \/ /\ \E d \in {EmptyDb, SeededDb} : InitDb(d)
          /\ \E ins \in [Requests -> RaceEventInputs] :
                 inflight = [p \in Requests |-> Pending("sync_event", ins[p])]
       \/ /\ InitDb(MatchDb)
          /\ \E ins \in [Requests -> RaceMatchInputs] :
                 inflight = [p \in Requests |-> Pending("save_tba_match", ins[p])]

NextRace ==
    \E p \in Requests :
        \/ EventLookup(p)
        \/ EventWrite(p)
        \/ MatchLookup(p)
        \/ MatchWrite(p)

SpecRace == InitRace /\ [][NextRace]_vars

----------------------------------------------------------------------------
(* Properties of two requests at once                                       *)

BothDone == \A p \in Requests : inflight[p].pc = "done"

\* the records of the key the two requests carry
RaceRows ==
    IF inflight[1].op = "sync_event"
    THEN RowsOf(events, inflight[1].in.event)
    ELSE KeyRows(matches, Get(inflight[1].in.match, "key").s)

\* C30: the upsert by unique key is safe when two requests interleave.  When
\* two save_tba_match of one new match key, or two sync_event of one new
\* event code, have both finished, whatever their interleaving, exactly one
\* record holds the key and neither request has raised.
C30_ConcurrentUpsertSafe ==
    (inflight # <<>> /\ BothDone) =>
        /\ Cardinality(RaceRows) = 1
        /\ \A p \in Requests : inflight[p].err = ""

\* both sync_event missed the event, both inserted it: two Events of the code
C30_TwoEventsOfOneCode ==
    /\ inflight # <<>> /\ BothDone
    /\ inflight[1].op = "sync_event"
    /\ \A p \in Requests : inflight[p].err = "" /\ inflight[p].found = {}
    /\ Cardinality(RaceRows) = 2

\* both sync_event missed the event, and the second insert was refused
C30_SecondInsertRefused ==
    /\ inflight # <<>> /\ BothDone
    /\ inflight[1].op = "sync_event"
    /\ \E p \in Requests : inflight[p].err = "IntegrityError"
    /\ Cardinality(RaceRows) = 1

=============================================================================
